---------------------------- MODULE Spec2Model ----------------------------
(***************************************************************************)
(* Backtesting core of the Stock/Crypto ETL repository: the Portfolio      *)
(* state machine (src/src/backtesting/portfolio.py), the BacktestEngine    *)
(* orchestrator (src/src/backtesting/backtesting_engine.py), the six       *)
(* strategies (src/src/strategies/) and PerformanceMetrics                 *)
(* (src/src/backtesting/preformance_metrics.py).                           *)
(*                                                                         *)
(* Numbers.  Python floats are IEEE-754 binary64: every arithmetic result  *)
(* is the exact result rounded to the nearest value with a 53-bit          *)
(* significand, ties to even.  The model keeps that rule and scales the    *)
(* format down: a number is an integer count of 2^-FracBits, and every     *)
(* arithmetic result is the exact result rounded to the nearest value with *)
(* a MantBits-bit significand, ties to even.  Inputs are chosen so that    *)
(* results stay clear of the exponent limits, as prices and capital are    *)
(* in binary64.                                                            *)
(***************************************************************************)
EXTENDS Integers, Sequences, FiniteSets, TLC

(* ------------------------------ bounds --------------------------------- *)

\* significand width of the scaled-down float format (53 in binary64)
MantBits == 4
\* a number n stands for n / 2^FracBits
FracBits == 6
\* calls made on a Portfolio in PortfolioSpec
MaxOps == 3
\* longest price series handed to BacktestEngine.run
MaxDays == 3
\* longest frame handed to a strategy's generate_signals directly
MaxRows == 3
\* longest equity curve handed to PerformanceMetrics directly
MaxPoints == 3
\* longest trade list handed to PerformanceMetrics directly
MaxTrades == 2
\* longest series of a run made beside another run
MaxBars == 2
\* Portfolio objects the runs made side by side may create: one per run
MaxPortfolios == 3

(* --------------------------- float arithmetic -------------------------- *)

One == 2 ^ FracBits

\* the float for the integer k
F(k) == k * One

\* the float for k / 2^j
Frac(k, j) == (k * One) \div (2 ^ j)

RECURSIVE Shift(_)
\* binary digits of q beyond the significand width
Shift(q) == IF q < 2 ^ MantBits THEN 0 ELSE 1 + Shift(q \div 2)

\* num/den (num >= 0, den > 0) to the nearest integer, ties to even
RoundNearestEven(num, den) ==
    LET q == num \div den
        r == num % den
    IN  IF 2 * r > den \/ (2 * r = den /\ q % 2 = 1) THEN q + 1 ELSE q

\* num/den (num >= 0, den > 0) to the nearest representable number
RoundPos(num, den) ==
    LET s == Shift(num \div den)
    IN  RoundNearestEven(num, den * 2 ^ s) * 2 ^ s

\* x[1]/x[2] (x[2] > 0) to the nearest representable number, the sign kept
Rounded[x \in Int \X Int] ==
    IF x[1] < 0 THEN 0 - RoundPos(0 - x[1], x[2]) ELSE RoundPos(x[1], x[2])

\* num/den (den > 0) to the nearest representable number
Round(num, den) == Rounded[<<num, den>>]

\* float a * b
FMul(a, b) == Round(a * b, One)

\* x[1]/x[2] as a float, x[2] # 0
Quotient[x \in Int \X Int] ==
    IF x[2] > 0 THEN Round(x[1] * One, x[2]) ELSE Round((0 - x[1]) * One, 0 - x[2])

\* float a / b, b # 0
FDiv(a, b) == Quotient[<<a, b>>]

\* float a + b
FAdd(a, b) == Round(a + b, 1)

\* float a - b
FSub(a, b) == Round(a - b, 1)


(* ------------------------------- Trade --------------------------------- *)

\* Optional values: <<>> is None, <<x>> is x
None == <<>>
Some(x) == <<x>>

\* Trade(entry_date, entry_price, shares): exit fields default to None
Trade(entry_date, entry_price, shares) ==
    [entry_date |-> entry_date, entry_price |-> entry_price, shares |-> shares,
     exit_date |-> None, exit_price |-> None]

\* Trade.is_open
is_open(t) == t.exit_date = None

\* results of the derived properties: None, a value, or a raised error
NoValue == [kind |-> "None", v |-> 0]
Value(x) == [kind |-> "value", v |-> x]
Raised(e) == [kind |-> e, v |-> 0]

\* Trade.return_pct; `and self.exit_price` is false for a price of 0
return_pct(t) ==
    IF ~is_open(t) /\ t.exit_price # None /\ t.exit_price[1] # 0
    THEN IF t.entry_price = 0
         THEN Raised("ZeroDivisionError")
         ELSE Value(FMul(FDiv(FSub(t.exit_price[1], t.entry_price), t.entry_price),
                         F(100)))
    ELSE NoValue

\* Trade.return_dollars
return_dollars(t) ==
    IF ~is_open(t) /\ t.exit_price # None /\ t.exit_price[1] # 0
    THEN Value(FMul(FSub(t.exit_price[1], t.entry_price), t.shares))
    ELSE NoValue

\* Trade.holding_days: dates are day numbers, so the timedelta's days is the
\* difference
holding_days(t) ==
    IF ~is_open(t) /\ t.exit_date # None
    THEN Value(t.exit_date[1] - t.entry_date)
    ELSE NoValue

(* ------------------------------ Portfolio ------------------------------ *)

\* Portfolio.__init__
Portfolio(starting_capital, commission_pct) ==
    [starting_capital |-> starting_capital,
     cash |-> starting_capital,
     commission_pct |-> commission_pct,
     shares_held |-> 0,
     position_entry_price |-> 0,
     trades |-> <<>>,
     current_trade |-> None,
     equity_curve |-> <<>>]

\* Portfolio.has_position
has_position(p) == p.shares_held > 0

\* Portfolio.get_position_value
get_position_value(p, current_price) == FMul(p.shares_held, current_price)

\* get_total_value that forgets the position: the cash alone
get_total_value_cash_only(p, current_price) == p.cash

\* Portfolio.get_total_value
get_total_value(p, current_price) ==
    FAdd(p.cash, get_position_value(p, current_price))

\* the outcome of a call: what it returned (or raised) and the Portfolio after
Outcome(ret, p) == [ret |-> ret, p |-> p]

\* the sizing of buy when shares is None (line 122)
default_shares(p, price) ==
    FDiv(FMul(p.cash, FSub(One, p.commission_pct)), price)

\* cost + commission of buying shares at price (lines 124-126)
total_cost(p, price, shares) ==
    LET cost == FMul(shares, price)
        commission == FMul(cost, p.commission_pct)
    IN  FAdd(cost, commission)

\* buy_sized that executes the order but never records the Trade
buy_sized_no_trade(p, date, price, shares) ==
    IF total_cost(p, price, shares) > p.cash
        THEN [ret |-> "False", p |-> p]
        ELSE [ret |-> "True",
              p |-> [p EXCEPT !.cash = FSub(p.cash, total_cost(p, price, shares)),
                              !.shares_held = shares,
                              !.position_entry_price = price]]

\* buy after the position check, with the share count known (lines 128-144)
buy_sized(p, date, price, shares) ==
    IF total_cost(p, price, shares) > p.cash
        THEN Outcome("False", p)
        ELSE Outcome("True",
                     [p EXCEPT !.cash = FSub(p.cash, total_cost(p, price, shares)),
                               !.shares_held = shares,
                               !.position_entry_price = price,
                               !.current_trade = Some(Trade(date, price, shares))])

\* buy without the check for an existing position
buy_unguarded(p, date, price, shares) ==
    IF shares = None
    THEN IF price = 0
         THEN [ret |-> "ZeroDivisionError", p |-> p]
         ELSE buy_sized(p, date, price, default_shares(p, price))
    ELSE buy_sized(p, date, price, shares[1])

\* Portfolio.buy; shares is None or Some(number)
buy(p, date, price, shares) ==
    IF has_position(p)
    THEN Outcome("False", p)
    ELSE IF shares = None
         THEN IF price = 0
              THEN Outcome("ZeroDivisionError", p)
              ELSE buy_sized(p, date, price, default_shares(p, price))
         ELSE buy_sized(p, date, price, shares[1])

\* sell that files the Trade without its exit
sell_unstamped(p, date, price) ==
    IF ~has_position(p)
    THEN [ret |-> "False", p |-> p]
    ELSE [ret |-> "True",
          p |-> [p EXCEPT !.cash = FAdd(p.cash,
                                        FSub(FMul(p.shares_held, price),
                                             FMul(FMul(p.shares_held, price),
                                                  p.commission_pct))),
                          !.trades = p.trades \o p.current_trade,
                          !.current_trade = None,
                          !.shares_held = 0,
                          !.position_entry_price = 0]]

\* Portfolio.sell
sell(p, date, price) ==
    IF ~has_position(p)
    THEN Outcome("False", p)
    ELSE LET proceeds == FMul(p.shares_held, price)
             commission == FMul(proceeds, p.commission_pct)
             net_proceeds == FSub(proceeds, commission)
             closed == IF p.current_trade # None
                       THEN <<[p.current_trade[1] EXCEPT !.exit_date = Some(date),
                                                         !.exit_price = Some(price)]>>
                       ELSE <<>>
         IN  Outcome("True",
                     [p EXCEPT !.cash = FAdd(p.cash, net_proceeds),
                               !.trades = p.trades \o closed,
                               !.current_trade = None,
                               !.shares_held = 0,
                               !.position_entry_price = 0])

\* the dictionary record_day appends
EquitySnapshot(p, date, price) ==
    [date |-> date,
     portfolio_value |-> get_total_value(p, price),
     cash |-> p.cash,
     position_value |-> get_position_value(p, price),
     shares_held |-> p.shares_held]

\* record_day that keeps only the latest snapshot
record_day_overwrite(p, date, price) ==
    [ret |-> "None",
     p |-> [p EXCEPT !.equity_curve = <<EquitySnapshot(p, date, price)>>]]

\* Portfolio.record_day
record_day(p, date, price) ==
    Outcome("None",
            [p EXCEPT !.equity_curve = Append(p.equity_curve,
                                              EquitySnapshot(p, date, price))])

\* Portfolio.get_closed_trades
get_closed_trades(p) == SelectSeq(p.trades, LAMBDA t : ~is_open(t))


(* ------------------------------- state --------------------------------- *)

VARIABLES
    portfolio,          \* the Portfolio under test / BacktestEngine.portfolio (Optional)
    call,               \* the last call made on the Portfolio: arguments and result
    nops,               \* calls made so far in PortfolioSpec
    strategy,           \* BacktestEngine.strategy
    starting_capital,   \* BacktestEngine.starting_capital
    commission_pct,     \* BacktestEngine.commission_pct
    results_df,         \* BacktestEngine.results_df (Optional)
    metrics,            \* BacktestEngine.metrics (Optional)
    df,                 \* run's local df: rows of date, close_price and signal
    i,                  \* run's loop position: the row being simulated
    pc,                 \* run's position
    calls,              \* the Portfolio calls run has made, in order
    columns,            \* run's local df: its column names
    arg,                \* the argument of the strategy or metrics call under test
    returned,           \* what the last strategy, metrics or getter call returned
    ran,                \* history: some run on this engine has returned normally
    engines,            \* the BacktestEngine objects of runs made side by side
    heap                \* the Portfolio objects those engines have created

vars == <<portfolio, call, nops, strategy, starting_capital, commission_pct,
          results_df, metrics, df, i, pc, calls, columns, arg, returned, ran,
          engines, heap>>

engine_vars == <<strategy, starting_capital, commission_pct, results_df, metrics,
                 df, i, pc, calls, columns, arg, returned, ran, engines, heap>>

\* the rest of the state, for the calls that touch only arg and returned
call_vars == <<portfolio, call, nops, starting_capital, commission_pct,
               results_df, metrics, df, i, pc, calls, columns, ran, engines,
               heap>>

\* no strategy, metrics or getter call has returned yet
NotCalled == [kind |-> "none"]

\* the Portfolio object
P == portfolio[1]

\* a call on the Portfolio and what it returned
Call(op, date, price, shares, ret) ==
    [op |-> op, date |-> date, price |-> price, shares |-> shares, ret |-> ret]

NoCall == Call("none", 0, 0, None, "None")

(* ---------------------- direct use of a Portfolio ---------------------- *)

\* starting_capital values: an empty account and a funded one
Capitals == {0, F(13)}

\* commission_pct values: none, 25 %, 100 %
Commissions == {0, Frac(1, 2), One}

\* dates, as day numbers
Dates == {1, 3}

\* prices handed to buy, sell and record_day
Prices == {0, F(3), F(4)}

\* the shares argument of buy: omitted, negative, zero, affordable, unaffordable
ShareArgs == {None, Some(F(-1)), Some(0), Some(F(2)), Some(F(8))}

PortfolioInit ==
    /\ \E sc \in Capitals, c \in Commissions : portfolio = Some(Portfolio(sc, c))
    /\ call = NoCall
    /\ nops = 0
    /\ strategy = "none"
    /\ starting_capital = 0
    /\ commission_pct = 0
    /\ results_df = None
    /\ metrics = None
    /\ df = <<>>
    /\ i = 0
    /\ pc = "idle"
    /\ calls = <<>>
    /\ columns = {}
    /\ arg = None
    /\ returned = NotCalled
    /\ ran = FALSE
    /\ engines = <<>>
    /\ heap = <<>>

\* a caller invokes portfolio.buy(date, price[, shares])
CallBuy ==
    /\ nops < MaxOps
    /\ \E date \in Dates, price \in Prices, shares \in ShareArgs :
         LET o == buy(P, date, price, shares)
         IN  /\ portfolio' = Some(o.p)
             /\ call' = Call("buy", date, price, shares, o.ret)
    /\ nops' = nops + 1
    /\ UNCHANGED engine_vars

\* a caller invokes portfolio.sell(date, price)
CallSell ==
    /\ nops < MaxOps
    /\ \E date \in Dates, price \in Prices :
         LET o == sell(P, date, price)
         IN  /\ portfolio' = Some(o.p)
             /\ call' = Call("sell", date, price, None, o.ret)
    /\ nops' = nops + 1
    /\ UNCHANGED engine_vars

\* a caller invokes portfolio.record_day(date, price)
CallRecordDay ==
    /\ nops < MaxOps
    /\ \E date \in Dates, price \in Prices :
         LET o == record_day(P, date, price)
         IN  /\ portfolio' = Some(o.p)
             /\ call' = Call("record_day", date, price, None, o.ret)
    /\ nops' = nops + 1
    /\ UNCHANGED engine_vars

PortfolioNext == CallBuy \/ CallSell \/ CallRecordDay

PortfolioSpec == PortfolioInit /\ [][PortfolioNext]_vars


(* ------------------------ pandas / numpy columns ----------------------- *)

\* a float64 cell is NaN or a number
NaN == None

\* float64 infinity: beyond every finite number of the model
Infinity == 2 ^ 30

IsInf(a) == a # NaN /\ (a[1] = Infinity \/ a[1] = 0 - Infinity)

Sign(x) == IF x > 0 THEN 1 ELSE IF x < 0 THEN 0 - 1 ELSE 0

\* numpy x[1] + x[2]
Added[x \in Seq(Int) \X Seq(Int)] ==
    LET a == x[1]
        b == x[2]
    IN  IF a = NaN \/ b = NaN THEN NaN
        ELSE IF IsInf(a) /\ IsInf(b) THEN (IF a = b THEN a ELSE NaN)
        ELSE IF IsInf(a) THEN a
        ELSE IF IsInf(b) THEN b
        ELSE Some(FAdd(a[1], b[1]))

\* numpy a + b
NpAdd(a, b) == Added[<<a, b>>]

\* numpy -x
Negated[x \in Seq(Int)] == IF x = NaN THEN NaN ELSE Some(0 - x[1])

\* numpy a - b
NpSub(a, b) == Added[<<a, Negated[b]>>]

\* numpy x[1] * x[2]
Multiplied[x \in Seq(Int) \X Seq(Int)] ==
    LET a == x[1]
        b == x[2]
    IN  IF a = NaN \/ b = NaN THEN NaN
        ELSE IF IsInf(a) \/ IsInf(b)
             THEN (IF a[1] = 0 \/ b[1] = 0 THEN NaN
                   ELSE Some(Sign(a[1]) * Sign(b[1]) * Infinity))
             ELSE Some(FMul(a[1], b[1]))

\* numpy a * b
NpMul(a, b) == Multiplied[<<a, b>>]

\* numpy x[1] / x[2]: division by zero gives an infinity, 0/0 gives NaN
Divided[x \in Seq(Int) \X Seq(Int)] ==
    LET a == x[1]
        b == x[2]
    IN  IF a = NaN \/ b = NaN THEN NaN
        ELSE IF IsInf(a) THEN (IF IsInf(b) THEN NaN
                               ELSE Some((IF b[1] < 0 THEN 0 - 1 ELSE 1) * a[1]))
        ELSE IF IsInf(b) THEN Some(0)
        ELSE IF b[1] = 0 THEN (IF a[1] = 0 THEN NaN ELSE Some(Sign(a[1]) * Infinity))
        ELSE Some(FDiv(a[1], b[1]))

\* numpy a / b
NpDiv(a, b) == Divided[<<a, b>>]

\* >= in the place of >
NpGt_or_equal(a, b) == a # NaN /\ b # NaN /\ a[1] >= b[1]

\* comparisons: False whenever a side is NaN
NpGt(a, b) == a # NaN /\ b # NaN /\ a[1] > b[1]
NpLt(a, b) == a # NaN /\ b # NaN /\ a[1] < b[1]
\* > in the place of >=
NpGe_strict(a, b) == a # NaN /\ b # NaN /\ a[1] > b[1]

NpGe(a, b) == a # NaN /\ b # NaN /\ a[1] >= b[1]
NpLe(a, b) == a # NaN /\ b # NaN /\ a[1] <= b[1]

\* a DataFrame: obj tells one object from another, index holds the dates,
\* rows[k] maps each column name to the cell of row k
DataFrame(obj, index, cols, rows) ==
    [obj |-> obj, index |-> index, columns |-> cols, rows |-> rows]

\* df[c]
Column(f, c) == [k \in 1 .. Len(f.rows) |-> f.rows[k][c]]

\* df[c] = col, on the object itself
SetColumn(f, c, col) ==
    [f EXCEPT !.columns = f.columns \cup {c},
              !.rows = [k \in 1 .. Len(f.rows) |->
                          [x \in f.columns \cup {c} |->
                              IF x = c THEN col[k] ELSE f.rows[k][x]]]]

\* a name bound to the same object
DataFrame_alias(f) == f

\* df.copy(): a new object with the same content
DataFrame_copy(f) == [f EXCEPT !.obj = f.obj + 1]

\* Series.shift(-1): the value of the next row
shift_ahead(col) == [k \in 1 .. Len(col) |-> IF k = Len(col) THEN NaN ELSE col[k + 1]]

\* Series.shift(1) of a float column
shift(col) == [k \in 1 .. Len(col) |-> IF k = 1 THEN NaN ELSE col[k - 1]]

\* Series.shift(1) of a boolean column, as & reads it: the NaN of the first
\* row counts as False
shift_bool(col) == [k \in 1 .. Len(col) |-> IF k = 1 THEN FALSE ELSE col[k - 1]]

\* Series.diff()
diff(col) == [k \in 1 .. Len(col) |-> NpSub(col[k], shift(col)[k])]

\* df[cols].first_valid_index(): the first row with a cell of cols that is not
\* NaN; 0 stands for None
first_valid_index(f, cols) ==
    LET valid == {k \in 1 .. Len(f.rows) : \E c \in cols : f.rows[k][c] # NaN}
    IN  IF valid = {} THEN 0 ELSE CHOOSE k \in valid : \A j \in valid : k <= j

\* df.loc[mask, 'signal'] = v
Where(sig, mask, v) == [k \in 1 .. Len(sig) |-> IF mask[k] THEN v ELSE sig[k]]

\* df.loc[idx, 'signal'] = v
At(sig, idx, v) == [k \in 1 .. Len(sig) |-> IF k = idx THEN v ELSE sig[k]]

(* ------------------------------ strategies ----------------------------- *)

Signals == {"BUY", "SELL", "HOLD"}

\* the six BaseStrategy subclasses, each built with its default parameters
StrategyClasses ==
    {"BuyAndHold", "SMACrossover", "BreakoutStrategy", "VolatilityBreakout",
     "BollingerMeanReversion", "VolumeMomentum"}

\* BaseStrategy.name as each subclass sets it
name(strat) ==
    CASE strat = "BuyAndHold" -> "Buy and Hold"
      [] strat = "SMACrossover" -> "SMA Crossover (5/20)"
      [] strat = "BreakoutStrategy" -> "Breakout (60-day)"
      [] strat = "VolatilityBreakout" -> "ATR Volatility Breakout"
      [] strat = "BollingerMeanReversion" -> "Bollinger Mean Reversion"
      [] strat = "VolumeMomentum" -> "Volume Momentum"

\* get_required_columns of each subclass
get_required_columns(strat) ==
    CASE strat = "BuyAndHold" -> {"close_price"}
      [] strat = "SMACrossover" -> {"close_price", "sma_5", "sma_20"}
      [] strat = "BreakoutStrategy" -> {"close_price", "sma_60"}
      [] strat = "VolatilityBreakout" -> {"close_price", "sma_20", "atr_14"}
      [] strat = "BollingerMeanReversion" ->
            {"close_price", "bollinger_upper", "bollinger_middle", "bollinger_lower"}
      [] strat = "VolumeMomentum" ->
            {"close_price", "volume", "volume_sma_20", "volume_ratio"}

\* df with the signal column set to sig[k] on row k
WithSignals(rows, sig) ==
    [k \in 1 .. Len(rows) |->
        [date |-> rows[k].date, close_price |-> rows[k].close_price,
         signal |-> sig[k]]]

\* BuyAndHold.generate_signals: HOLD on every row, then BUY on the first
BuyAndHold_generate_signals(rows) ==
    WithSignals(rows, [k \in 1 .. Len(rows) |-> IF k = 1 THEN "BUY" ELSE "HOLD"])

\* the signal columns a BaseStrategy subclass may return for rows
generate_signals(strat, rows) ==
    IF strat = "BuyAndHold"
    THEN {BuyAndHold_generate_signals(rows)}
    ELSE {WithSignals(rows, sig) : sig \in [1 .. Len(rows) -> Signals]}

(* ------------------ the strategies on DataFrames ----------------------- *)

\* BaseStrategy.validate_data: the result, and what it prints
validate_data(strat, f) ==
    LET missing == get_required_columns(strat) \ f.columns
    IN  IF missing # {}
        THEN [ok |-> FALSE,
              printed |-> <<[text |-> "Missing required columns:", names |-> missing]>>]
        ELSE [ok |-> TRUE, printed |-> <<>>]

\* a signal column no rule has written to
InitialSignal_unset(n) == [k \in 1 .. n |-> "nan"]

\* df['signal'] = 'HOLD'
InitialSignal(n) == [k \in 1 .. n |-> "HOLD"]

\* what a generate_signals body leaves: the frame it worked on, returned or
\* abandoned by an exception
Frame(w) == [kind |-> "DataFrame", df |-> w]
Failure(e, w) == [kind |-> e, df |-> w]

\* BuyAndHold.generate_signals, lines 47-53: iloc[0] of an empty frame raises
BuyAndHold_signals(w) ==
    LET held == SetColumn(w, "signal", InitialSignal(Len(w.rows)))
    IN  IF w.rows = <<>>
        THEN Failure("IndexError", held)
        ELSE Frame(SetColumn(w, "signal", At(InitialSignal(Len(w.rows)), 1, "BUY")))

\* SMACrossover.generate_signals, lines 66-100
SMACrossover_signals(w) ==
    LET n == Len(w.rows)
        short_sma == Column(w, "sma_5")
        long_sma == Column(w, "sma_20")
        short_above_long_prev ==
            [k \in 1 .. n |-> NpGt(shift(short_sma)[k], shift(long_sma)[k])]
        short_above_long_now == [k \in 1 .. n |-> NpGt(short_sma[k], long_sma[k])]
        golden_cross ==
            [k \in 1 .. n |-> ~short_above_long_prev[k] /\ short_above_long_now[k]]
        death_cross ==
            [k \in 1 .. n |-> short_above_long_prev[k] /\ ~short_above_long_now[k]]
        crossed == Where(Where(InitialSignal(n), golden_cross, "BUY"),
                         death_cross, "SELL")
        first_valid_idx == first_valid_index(w, {"sma_5", "sma_20"})
    IN  Frame(SetColumn(w, "signal",
                 IF first_valid_idx # 0
                    /\ NpGt(short_sma[first_valid_idx], long_sma[first_valid_idx])
                 THEN At(crossed, first_valid_idx, "BUY")
                 ELSE crossed))

\* BreakoutStrategy(threshold_pct = 2.0)
threshold_pct == F(2)

\* BreakoutStrategy.generate_signals, lines 65-88
BreakoutStrategy_signals(w) ==
    LET n == Len(w.rows)
        close == Column(w, "close_price")
        sma == Column(w, "sma_60")
        price_vs_sma_pct ==
            [k \in 1 .. n |->
                NpMul(NpDiv(NpSub(close[k], sma[k]), sma[k]), Some(F(100)))]
        w1 == SetColumn(w, "price_vs_sma_pct", price_vs_sma_pct)
        breakout_up == [k \in 1 .. n |-> NpGt(price_vs_sma_pct[k], Some(threshold_pct))]
        breakout_down ==
            [k \in 1 .. n |-> NpLt(price_vs_sma_pct[k], Some(0 - threshold_pct))]
        broken == Where(Where(InitialSignal(n), breakout_up, "BUY"),
                        breakout_down, "SELL")
        first_valid_idx == first_valid_index(w1, {"sma_60", "price_vs_sma_pct"})
    IN  Frame(SetColumn(w1, "signal",
                 IF first_valid_idx # 0
                    /\ NpGt(price_vs_sma_pct[first_valid_idx], Some(threshold_pct))
                 THEN At(broken, first_valid_idx, "BUY")
                 ELSE broken))

\* VolatilityBreakout(atr_multiplier = 1.5)
atr_multiplier == Frac(3, 1)

\* VolatilityBreakout.generate_signals, lines 74-99
VolatilityBreakout_signals(w) ==
    LET n == Len(w.rows)
        close == Column(w, "close_price")
        sma == Column(w, "sma_20")
        atr == Column(w, "atr_14")
        upper_threshold ==
            [k \in 1 .. n |-> NpAdd(sma[k], NpMul(atr[k], Some(atr_multiplier)))]
        lower_threshold ==
            [k \in 1 .. n |-> NpSub(sma[k], NpMul(atr[k], Some(atr_multiplier)))]
        w1 == SetColumn(SetColumn(w, "upper_threshold", upper_threshold),
                        "lower_threshold", lower_threshold)
        breakout_up == [k \in 1 .. n |-> NpGt(close[k], upper_threshold[k])]
        breakout_down == [k \in 1 .. n |-> NpLt(close[k], lower_threshold[k])]
        broken == Where(Where(InitialSignal(n), breakout_up, "BUY"),
                        breakout_down, "SELL")
        first_valid_idx == first_valid_index(w1, {"close_price", "upper_threshold"})
    IN  Frame(SetColumn(w1, "signal",
                 IF first_valid_idx # 0
                    /\ NpGt(close[first_valid_idx], upper_threshold[first_valid_idx])
                 THEN At(broken, first_valid_idx, "BUY")
                 ELSE broken))

\* the literals 0.1 and 0.9 of BollingerMeanReversion, as floats
Oversold == Round(One, 10)
Overbought == Round(9 * One, 10)

\* BollingerMeanReversion.generate_signals, lines 67-106
BollingerMeanReversion_signals(w) ==
    LET n == Len(w.rows)
        close == Column(w, "close_price")
        lower == Column(w, "bollinger_lower")
        upper == Column(w, "bollinger_upper")
        band_position ==
            [k \in 1 .. n |->
                NpDiv(NpSub(close[k], lower[k]), NpSub(upper[k], lower[k]))]
        oversold == [k \in 1 .. n |-> NpLe(band_position[k], Some(Oversold))]
        overbought == [k \in 1 .. n |-> NpGe(band_position[k], Some(Overbought))]
        crosses_up ==
            [k \in 1 .. n |-> /\ NpLt(shift(close)[k], shift(lower)[k])
                              /\ NpGe(close[k], lower[k])]
        crosses_down ==
            [k \in 1 .. n |-> /\ NpGt(shift(close)[k], shift(upper)[k])
                              /\ NpLe(close[k], upper[k])]
        banded == Where(Where(Where(Where(InitialSignal(n), oversold, "BUY"),
                                    overbought, "SELL"),
                              crosses_up, "BUY"),
                        crosses_down, "SELL")
        w1 == SetColumn(w, "band_position", band_position)
        first_valid_idx ==
            first_valid_index(w1, {"close_price", "bollinger_lower", "bollinger_upper"})
    IN  Frame(SetColumn(w1, "signal",
                 IF first_valid_idx # 0
                    /\ NpLe(band_position[first_valid_idx], Some(Oversold))
                 THEN At(banded, first_valid_idx, "BUY")
                 ELSE banded))

\* VolumeMomentum(volume_multiplier = 1.5)
volume_multiplier == Frac(3, 1)

\* VolumeMomentum.generate_signals, lines 67-109
VolumeMomentum_signals(w) ==
    LET n == Len(w.rows)
        price_change == diff(Column(w, "close_price"))
        price_up == [k \in 1 .. n |-> NpGt(price_change[k], Some(0))]
        price_down == [k \in 1 .. n |-> NpLt(price_change[k], Some(0))]
        high_volume ==
            [k \in 1 .. n |-> NpGe(w.rows[k]["volume_ratio"], Some(volume_multiplier))]
        buy_condition == [k \in 1 .. n |-> price_up[k] /\ high_volume[k]]
        sell_condition == [k \in 1 .. n |-> price_down[k] /\ high_volume[k]]
        consecutive_up ==
            [k \in 1 .. n |-> price_up[k] /\ shift_bool(price_up)[k] /\ high_volume[k]]
        consecutive_down ==
            [k \in 1 .. n |->
                price_down[k] /\ shift_bool(price_down)[k] /\ high_volume[k]]
        confirmed == Where(Where(Where(Where(InitialSignal(n), buy_condition, "BUY"),
                                       sell_condition, "SELL"),
                                 consecutive_up, "BUY"),
                           consecutive_down, "SELL")
        w1 == SetColumn(SetColumn(SetColumn(SetColumn(SetColumn(SetColumn(w,
                  "price_change", price_change), "price_up", price_up),
                  "price_down", price_down), "high_volume", high_volume),
                  "consecutive_up", consecutive_up),
                  "consecutive_down", consecutive_down)
        first_valid_idx == first_valid_index(w1, {"close_price", "volume_ratio"})
    IN  Frame(SetColumn(w1, "signal",
                 IF first_valid_idx # 0
                 THEN At(confirmed, first_valid_idx, "HOLD")
                 ELSE confirmed))

\* the body of generate_signals after validation, by class
Signalled(strat, w) ==
    CASE strat = "BuyAndHold" -> BuyAndHold_signals(w)
      [] strat = "SMACrossover" -> SMACrossover_signals(w)
      [] strat = "BreakoutStrategy" -> BreakoutStrategy_signals(w)
      [] strat = "VolatilityBreakout" -> VolatilityBreakout_signals(w)
      [] strat = "BollingerMeanReversion" -> BollingerMeanReversion_signals(w)
      [] strat = "VolumeMomentum" -> VolumeMomentum_signals(w)

\* strategy.generate_signals(f): what it returns or raises (ret), what it
\* prints, and the caller's frame f after the call, which has changed if the
\* body worked on f itself
Strategy_generate_signals(strat, f) ==
    LET checked == validate_data(strat, f)
        body == Signalled(strat, DataFrame_copy(f))
    IN  IF ~checked.ok
        THEN [df |-> f,
              ret |-> [kind |-> "ValueError",
                       message |-> [text |-> "DataFrame missing required columns for",
                                    names |-> {name(strat)}]],
              printed |-> checked.printed]
        ELSE [df |-> IF body.df.obj = f.obj THEN body.df ELSE f,
              ret |-> IF body.kind = "DataFrame" THEN body
                      ELSE [kind |-> body.kind,
                            message |-> [text |-> "iloc cannot enlarge its target object",
                                         names |-> {}]],
              printed |-> checked.printed]

\* the date of the k-th row of a series: increasing with k
TradingDay(k) == 2 * k + 1

(* ------------------- direct use of a strategy -------------------------- *)

\* the rows a strategy is handed, by class: every cell its rule reads takes
\* the values that put the rule on each side of its thresholds, NaN for the
\* indicators included; the cells it does not read are fixed
RowsOf(strat) ==
    CASE strat = "BuyAndHold" ->
            [close_price : {Some(F(3)), Some(F(4))}]
      [] strat = "SMACrossover" ->
            [close_price : {Some(F(3))},
             sma_5 : {NaN, Some(F(2)), Some(F(3)), Some(F(4))},
             sma_20 : {NaN, Some(F(3))}]
      [] strat = "BreakoutStrategy" ->
            [close_price : {Some(F(2)), Some(F(3)), Some(F(4))},
             sma_60 : {NaN, Some(F(3))}]
      [] strat = "VolatilityBreakout" ->
            [close_price : {Some(F(2)), Some(F(3)), Some(F(4))},
             sma_20 : {NaN, Some(F(3))},
             atr_14 : {NaN, Some(Frac(1, 1))}]
      [] strat = "BollingerMeanReversion" ->
            [close_price : {Some(F(1)), Some(F(3)), Some(F(5))},
             bollinger_upper : {NaN, Some(F(2)), Some(F(4))},
             bollinger_middle : {Some(F(3))},
             bollinger_lower : {NaN, Some(F(2))}]
      [] strat = "VolumeMomentum" ->
            [close_price : {Some(F(2)), Some(F(3)), Some(F(4))},
             volume : {Some(F(8))},
             volume_sma_20 : {Some(F(8))},
             volume_ratio : {NaN, Some(F(1)), Some(Frac(3, 1)), Some(F(2))}]

\* a frame of n rows with the dates of a series as its index
FrameOf(cols, rows) ==
    DataFrame(1, [k \in 1 .. Len(rows) |-> TradingDay(k)], cols, rows)

\* arg is a frame that carries every required column, of 0 .. MaxRows rows
ValidFrame ==
    \E n \in 0 .. MaxRows : \E rows \in [1 .. n -> RowsOf(strategy)] :
        arg = FrameOf(get_required_columns(strategy), rows)

\* arg is a frame that lacks some required column, of no row or one
LackingFrame ==
    \E cols \in (SUBSET get_required_columns(strategy))
                    \ {get_required_columns(strategy)} :
        \E n \in 0 .. 1 :
            arg = FrameOf(cols, [k \in 1 .. n |-> [c \in cols |-> Some(F(3))]])

StrategyInit ==
    /\ strategy \in StrategyClasses
    /\ (ValidFrame \/ LackingFrame)
    /\ returned = NotCalled
    /\ nops = 0
    /\ portfolio = None
    /\ call = NoCall
    /\ starting_capital = 0
    /\ commission_pct = 0
    /\ results_df = None
    /\ metrics = None
    /\ df = <<>>
    /\ i = 0
    /\ pc = "idle"
    /\ calls = <<>>
    /\ columns = {}
    /\ ran = FALSE
    /\ engines = <<>>
    /\ heap = <<>>

\* a caller invokes strategy.generate_signals(arg), arg being the caller's
\* name for the frame
CallGenerateSignals ==
    /\ returned = NotCalled
    /\ \E o \in {Strategy_generate_signals(strategy, arg)} :
         /\ arg' = o.df
         /\ returned' = [op |-> "generate_signals", ret |-> o.ret,
                         printed |-> o.printed]
    /\ UNCHANGED <<strategy>> /\ UNCHANGED call_vars

StrategyNext == CallGenerateSignals

StrategySpec == StrategyInit /\ [][StrategyNext]_vars

(* -------------------------- PerformanceMetrics ------------------------- *)

\* the integer part of the square root of x[1], x[2] being that of x[1] \div 4
Refined[x \in Int \X Int] ==
    IF (2 * x[2] + 1) * (2 * x[2] + 1) <= x[1] THEN 2 * x[2] + 1 ELSE 2 * x[2]

\* the integer part of the square root of n >= 0
Isqrt[n \in Int] == IF n < 2 THEN n ELSE Refined[<<n, Isqrt[n \div 4]>>]

RECURSIVE Digits(_)
\* the factors of 4 that bring m > 0 up to 2 * (MantBits + 1) binary digits
Digits(m) == IF m >= 4 ^ (MantBits + 1) THEN 0 ELSE 1 + Digits(4 * m)

\* the square root of the float n >= 0 to the nearest representable number:
\* the root is taken to more binary digits than the significand holds, and
\* an inexact root counts as lying above the digits kept
SquareRoot[n \in Int] ==
    IF n = 0 THEN 0
    ELSE LET k == Digits(n * One)
             scaled == n * One * 4 ^ k
             s == Isqrt[scaled]
         IN  IF s * s = scaled
             THEN Round(s, 2 ^ k)
             ELSE Round(2 * s + 1, 2 ^ (k + 1))

\* np.sqrt of the float64 a: NaN for NaN and for a negative number
Root[a \in Seq(Int)] ==
    IF a = NaN THEN NaN
    ELSE IF a[1] < 0 THEN NaN
    ELSE IF IsInf(a) THEN a
    ELSE Some(SquareRoot[a[1]])

\* np.sqrt
NpSqrt(a) == Root[a]

\* a float64 Series of the numbers of values
Series(values) == [k \in 1 .. Len(values) |-> Some(values[k])]

\* Series.pct_change(): data / data.shift(1) - 1
pct_change(col) ==
    [k \in 1 .. Len(col) |-> NpSub(NpDiv(col[k], shift(col)[k]), Some(One))]

\* Series.dropna()
dropna(col) == SelectSeq(col, LAMBDA x : x # NaN)

\* the sum of a float64 column, left to right
Total[col \in Seq(Seq(Int))] ==
    IF col = <<>> THEN Some(0)
    ELSE NpAdd(Total[SubSeq(col, 1, Len(col) - 1)], col[Len(col)])

\* Series.mean(): NaN for an empty column
mean[col \in Seq(Seq(Int))] ==
    IF col = <<>> THEN NaN ELSE NpDiv(Total[col], Some(F(Len(col))))

\* the root of the squared distances of the cells of x[1] from x[2], summed
\* and divided by their number less one
Deviation[x \in Seq(Seq(Int)) \X Seq(Int)] ==
    LET sqr == [k \in 1 .. Len(x[1]) |->
                   NpMul(NpSub(x[2], x[1][k]), NpSub(x[2], x[1][k]))]
    IN  NpSqrt(NpDiv(Total[sqr], Some(F(Len(x[1]) - 1))))

\* Series.std(): the sample standard deviation (ddof = 1), NaN for fewer
\* than two observations
std[col \in Seq(Seq(Int))] ==
    IF Len(col) < 2 THEN NaN ELSE Deviation[<<col, mean[col]>>]

\* the default of calculate_sharpe_ratio's risk_free_rate, 0.02
risk_free_rate == Round(2 * One, 100)

\* PerformanceMetrics.calculate_sharpe_ratio; NaN == 0 is False
calculate_sharpe_ratio(equity_curve, rate) ==
    LET daily_returns == dropna(pct_change(Series(equity_curve)))
    IN  IF Len(daily_returns) = 0 \/ std[daily_returns] = Some(0)
        THEN Some(0)
        ELSE LET avg_return == NpMul(mean[daily_returns], Some(F(252)))
                 std_return == NpMul(std[daily_returns], NpSqrt(Some(F(252))))
             IN  NpDiv(NpSub(avg_return, Some(rate)), std_return)

\* the running maximum x[1] of a column, extended by the cell x[2]
Extended[x \in Seq(Seq(Int)) \X Seq(Int)] ==
    IF x[1] = <<>> THEN <<x[2]>>
    ELSE Append(x[1], IF NpGt(x[2], x[1][Len(x[1])]) THEN x[2] ELSE x[1][Len(x[1])])

\* Series.expanding().max() of a column without NaN: the running maximum
expanding_max[col \in Seq(Seq(Int))] ==
    IF col = <<>> THEN <<>>
    ELSE Extended[<<expanding_max[SubSeq(col, 1, Len(col) - 1)], col[Len(col)]>>]

\* Series.min(): NaN cells are skipped, NaN for a column with no number
Series_min[col \in Seq(Seq(Int))] ==
    LET numbers == {col[k] : k \in 1 .. Len(col)} \ {NaN}
    IN  IF numbers = {} THEN NaN
        ELSE CHOOSE x \in numbers : \A y \in numbers : x[1] <= y[1]

\* (equity_curve - running_max) / running_max * 100 for the curve x[1] and the
\* running maximum x[2]
drawdown[x \in Seq(Seq(Int)) \X Seq(Seq(Int))] ==
    [k \in 1 .. Len(x[1]) |->
        NpMul(NpDiv(NpSub(x[1][k], x[2][k]), x[2][k]), Some(F(100)))]

\* the highest cell of a column on every row
Peak[col \in Seq(Seq(Int))] ==
    [k \in 1 .. Len(col) |->
        CHOOSE x \in {col[j] : j \in 1 .. Len(col)} :
            \A j \in 1 .. Len(col) : NpGe(x, col[j])]

\* calculate_max_drawdown measuring every value against the peak of the whole
\* curve
calculate_max_drawdown_from_peak(equity_curve) ==
    LET max_dd == Series_min[drawdown[<<Series(equity_curve),
                                        Peak[Series(equity_curve)]>>]]
    IN  IF max_dd # NaN THEN max_dd ELSE Some(0)

\* PerformanceMetrics.calculate_max_drawdown
calculate_max_drawdown(equity_curve) ==
    LET max_dd == Series_min[drawdown[<<Series(equity_curve),
                                        expanding_max[Series(equity_curve)]>>]]
    IN  IF max_dd # NaN THEN max_dd ELSE Some(0)

\* PerformanceMetrics.calculate_volatility
calculate_volatility(equity_curve) ==
    LET daily_returns == dropna(pct_change(Series(equity_curve)))
    IN  IF Len(daily_returns) = 0 THEN Some(0)
        ELSE NpMul(NpMul(std[daily_returns], NpSqrt(Some(F(252)))), Some(F(100)))

\* bool(x) of a derived property: None and 0.0 are false
truthy(r) == r.kind = "value" /\ r.v # 0

\* sum(...) over ints
SumInt[values \in Seq(Int)] ==
    IF values = <<>> THEN 0
    ELSE SumInt[SubSeq(values, 1, Len(values) - 1)] + values[Len(values)]

\* sum(...) over floats, left to right from 0
Sum[values \in Seq(Int)] ==
    IF values = <<>> THEN 0
    ELSE FAdd(Sum[SubSeq(values, 1, Len(values) - 1)], values[Len(values)])

\* every Trade object
TradeRecords ==
    [entry_date : Int, entry_price : Int, shares : Int,
     exit_date : Seq(Int), exit_price : Seq(Int)]

\* the statistics of an empty trade list (lines 132-142)
NoTrades ==
    [kind |-> "dict",
     v |-> [total_trades |-> 0, winning_trades |-> 0, losing_trades |-> 0,
            win_rate_pct |-> 0, avg_win_pct |-> 0, avg_loss_pct |-> 0,
            profit_factor |-> Some(0), avg_holding_days |-> 0]]

\* profit_factor without the test for losses of 0 (line 157)
profit_factor_unguarded(total_wins, total_losses) ==
    IF total_losses = 0
    THEN (IF total_wins = 0 THEN NaN ELSE Some(Infinity))
    ELSE Some(FDiv(total_wins, total_losses))

\* line 157
profit_factor(total_wins, total_losses) ==
    IF total_losses > 0 THEN Some(FDiv(total_wins, total_losses)) ELSE Some(0)

\* abs(x)
abs(x) == IF x < 0 THEN 0 - x ELSE x

\* lines 147-171: the statistics of the trades x[1], of which x[2] are the
\* winning_trades and x[3] the losing_trades
Statistics[x \in Seq(TradeRecords) \X Seq(TradeRecords) \X Seq(TradeRecords)] ==
    LET trades == x[1]
        winning_trades == x[2]
        losing_trades == x[3]
        pcts(ts) == [k \in 1 .. Len(ts) |-> return_pct(ts[k]).v]
        dollars(ts) == [k \in 1 .. Len(ts) |-> return_dollars(ts[k]).v]
        days == [k \in 1 .. Len(trades) |-> holding_days(trades[k]).v]
        win_rate == FMul(FDiv(F(Len(winning_trades)), F(Len(trades))), F(100))
        avg_win == IF winning_trades # <<>>
                   THEN FDiv(Sum[pcts(winning_trades)], F(Len(winning_trades)))
                   ELSE 0
        avg_loss == IF losing_trades # <<>>
                    THEN FDiv(Sum[pcts(losing_trades)], F(Len(losing_trades)))
                    ELSE 0
        total_wins == IF winning_trades # <<>> THEN Sum[dollars(winning_trades)] ELSE 0
        total_losses == IF losing_trades # <<>>
                        THEN abs(Sum[dollars(losing_trades)])
                        ELSE 0
    IN  [total_trades |-> Len(trades),
         winning_trades |-> Len(winning_trades),
         losing_trades |-> Len(losing_trades),
         win_rate_pct |-> win_rate,
         avg_win_pct |-> avg_win,
         avg_loss_pct |-> avg_loss,
         profit_factor |-> profit_factor(total_wins, total_losses),
         avg_holding_days |-> FDiv(F(SumInt[days]), F(Len(trades)))]

\* PerformanceMetrics.calculate_trade_statistics: return_pct raises for an
\* entry price of 0, and the sum of line 160 for a trade without holding_days
calculate_trade_statistics(trades) ==
    IF trades = <<>> THEN NoTrades
    ELSE IF \E k \in 1 .. Len(trades) :
                return_pct(trades[k]).kind = "ZeroDivisionError"
    THEN [kind |-> "ZeroDivisionError"]
    ELSE IF \E k \in 1 .. Len(trades) : holding_days(trades[k]).kind = "None"
    THEN [kind |-> "TypeError"]
    ELSE [kind |-> "dict",
          v |-> Statistics[<<trades,
                  SelectSeq(trades, LAMBDA t : truthy(return_pct(t))
                                                  /\ return_pct(t).v > 0),
                  SelectSeq(trades, LAMBDA t : truthy(return_pct(t))
                                                  /\ return_pct(t).v <= 0)>>]]

(* ------------------ direct use of PerformanceMetrics ------------------- *)

\* portfolio values of an equity curve
Equity == {F(1), F(2), F(3), F(4)}

\* closed trades at positive prices: a gain, a loss and no change
ClosedTrades ==
    {[Trade(TradingDay(0), entry, F(2)) EXCEPT !.exit_date = Some(TradingDay(days)),
                                               !.exit_price = Some(exit)] :
        entry \in {F(3), F(4)}, exit \in {F(3), F(4)}, days \in {1, 2}}

\* arg is an equity curve of 0 .. MaxPoints values
EquityCurve ==
    \E n \in 0 .. MaxPoints : \E curve \in [1 .. n -> Equity] :
        arg = [equity_curve |-> curve, trades |-> <<>>]

\* arg is a list of 0 .. MaxTrades closed trades
TradeList ==
    \E n \in 0 .. MaxTrades : \E trades \in [1 .. n -> ClosedTrades] :
        arg = [equity_curve |-> <<>>, trades |-> trades]

MetricsInit ==
    /\ (EquityCurve \/ TradeList)
    /\ returned = NotCalled
    /\ strategy = "BuyAndHold"
    /\ nops = 0
    /\ portfolio = None
    /\ call = NoCall
    /\ starting_capital = 0
    /\ commission_pct = 0
    /\ results_df = None
    /\ metrics = None
    /\ df = <<>>
    /\ i = 0
    /\ pc = "idle"
    /\ calls = <<>>
    /\ columns = {}
    /\ ran = FALSE
    /\ engines = <<>>
    /\ heap = <<>>

\* a caller invokes a method of PerformanceMetrics on arg
CallMetric(op, ret) ==
    /\ returned = NotCalled
    /\ returned' = [op |-> op, ret |-> ret]
    /\ UNCHANGED <<strategy, arg>> /\ UNCHANGED call_vars

CallSharpeRatio ==
    CallMetric("calculate_sharpe_ratio",
               calculate_sharpe_ratio(arg.equity_curve, risk_free_rate))

CallMaxDrawdown ==
    CallMetric("calculate_max_drawdown", calculate_max_drawdown(arg.equity_curve))

CallVolatility ==
    CallMetric("calculate_volatility", calculate_volatility(arg.equity_curve))

CallTradeStatistics ==
    CallMetric("calculate_trade_statistics", calculate_trade_statistics(arg.trades))

MetricsNext ==
    \/ CallSharpeRatio
    \/ CallMaxDrawdown
    \/ CallVolatility
    \/ CallTradeStatistics

MetricsSpec == MetricsInit /\ [][MetricsNext]_vars

(* ---------------------------- BacktestEngine --------------------------- *)

\* the strategies an engine is built with: the baseline, and one that stands
\* for the five indicator strategies; run's df carries no indicator values
\* here, so that one may return any signal column
Strategies == {"BuyAndHold", "AnySignals"}

\* the classes a strategy of the engine may be an instance of
Variants(strat) ==
    IF strat = "AnySignals" THEN StrategyClasses \ {"BuyAndHold"} ELSE {strat}

\* close prices, all positive
Closes == {F(3), F(4)}

\* the series get_combined_data may return: 0 .. MaxDays rows in date order
SeriesOf(closes) ==
    [k \in 1 .. Len(closes) |-> [date |-> TradingDay(k), close_price |-> closes[k]]]

\* the columns get_price_data selects
PriceColumns ==
    {"open_price", "high_price", "low_price", "close_price", "volume", "pct_change"}

\* the columns of fact_technical_indicators that get_combined_data joins
IndicatorColumns ==
    {"sma_5", "sma_10", "sma_20", "sma_60", "sma_90", "sma_200", "atr_14",
     "std_dev_20", "bollinger_upper", "bollinger_middle", "bollinger_lower",
     "volume_sma_20", "volume_ratio", "price_vs_sma60_pct", "distance_from_mean"}

\* the rows of the results this engine already stores
RowsStored == IF results_df = None THEN 0 ELSE Len(results_df[1])

\* BacktestEngine.__init__
EngineInit ==
    /\ strategy \in Strategies
    /\ starting_capital \in Capitals
    /\ commission_pct \in Commissions
    /\ portfolio = None
    /\ results_df = None
    /\ metrics = None
    /\ df = <<>>
    /\ i = 0
    /\ pc = "ready"
    /\ calls = <<>>
    /\ call = NoCall
    /\ nops = 0
    /\ columns = {}
    /\ arg = None
    /\ returned = NotCalled
    /\ ran = FALSE
    /\ engines = <<>>
    /\ heap = <<>>

\* run that does not look at df.empty
RunLoad_no_empty_check ==
    /\ pc = "ready"
    /\ \E n \in 0 .. MaxDays - RowsStored : \E closes \in [1 .. n -> Closes] :
         df' = SeriesOf(closes)
    /\ pc' = "signals"
    /\ columns' \in {PriceColumns, PriceColumns \cup IndicatorColumns}
    /\ UNCHANGED <<portfolio, call, nops, engines, heap, strategy, starting_capital,
                   commission_pct, results_df, metrics, i, calls, arg,
                   returned, ran>>

\* run that creates its Portfolio before it loads the data
RunLoad_portfolio_first ==
    /\ pc = "ready"
    /\ portfolio' = Some(Portfolio(starting_capital, commission_pct))
    /\ \E n \in 0 .. MaxDays - RowsStored : \E closes \in [1 .. n -> Closes] :
         /\ df' = SeriesOf(closes)
         /\ pc' = IF n = 0 THEN "ValueError" ELSE "signals"
    /\ columns' \in {PriceColumns, PriceColumns \cup IndicatorColumns}
    /\ UNCHANGED <<call, nops, engines, heap, strategy, starting_capital,
                   commission_pct, results_df, metrics, i, calls, arg,
                   returned, ran>>

\* run, lines 62-68: load the data, reject an empty frame.  get_combined_data
\* returns the price columns alone when the ticker has no indicator rows.  The
\* rows stored by an earlier run and the new series together stay within
\* MaxDays.
RunLoad ==
    /\ pc = "ready"
    /\ \E n \in 0 .. MaxDays - RowsStored : \E closes \in [1 .. n -> Closes] :
         /\ df' = SeriesOf(closes)
         /\ pc' = IF n = 0 THEN "ValueError" ELSE "signals"
    /\ columns' \in {PriceColumns, PriceColumns \cup IndicatorColumns}
    /\ UNCHANGED <<portfolio, call, nops, engines, heap, strategy, starting_capital,
                   commission_pct, results_df, metrics, i, calls, arg,
                   returned, ran>>

\* run, lines 70-72: df = self.strategy.generate_signals(df); the strategy
\* raises ValueError when validate_data finds a required column missing
RunGenerateSignals ==
    /\ pc = "signals"
    /\ \E s \in Variants(strategy) :
         IF ~(get_required_columns(s) \subseteq columns)
         THEN pc' = "ValueError" /\ UNCHANGED df
         ELSE IF s = "BuyAndHold" /\ df = <<>>
              THEN pc' = "IndexError" /\ UNCHANGED df
              ELSE df' \in generate_signals(strategy, df) /\ pc' = "portfolio"
    /\ UNCHANGED <<portfolio, call, nops, engines, heap, strategy, starting_capital,
                   commission_pct, results_df, metrics, i, calls, columns, arg,
                   returned, ran>>

\* run, lines 74-81: a fresh Portfolio, on which no call has been made; the
\* loop starts at the first row, if there is one
RunInitPortfolio ==
    /\ pc = "portfolio"
    /\ portfolio' = Some(Portfolio(starting_capital, commission_pct))
    /\ call' = NoCall
    /\ i' = 1
    /\ pc' = IF df = <<>> THEN "close" ELSE "trade"
    /\ UNCHANGED <<nops, engines, heap, strategy, starting_capital, commission_pct,
                   results_df, metrics, df, calls, columns, arg, returned, ran>>

\* the engine calls a Portfolio method: the Portfolio after it, and the log
Invoke(c, o) ==
    /\ portfolio' = Some(o.p)
    /\ call' = [c EXCEPT !.ret = o.ret]
    /\ calls' = Append(calls, [c EXCEPT !.ret = o.ret])

\* run, lines 82-89: act on the signal of row i
RunTrade ==
    /\ pc = "trade"
    /\ LET signal == df[i].signal
           price == df[i].close_price
           date == df[i].date
       IN  IF signal = "BUY" /\ ~has_position(P)
           THEN Invoke(Call("buy", date, price, None, "None"),
                       buy(P, date, price, None))
           ELSE IF signal = "SELL" /\ has_position(P)
                THEN Invoke(Call("sell", date, price, None, "None"),
                            sell(P, date, price))
                ELSE UNCHANGED <<portfolio, call, calls>>
    /\ pc' = "record"
    /\ UNCHANGED <<nops, engines, heap, strategy, starting_capital, commission_pct,
                   results_df, metrics, df, i, columns, arg, returned, ran>>

\* run, line 92: record the day of row i, then go to the next row
RunRecordDay ==
    /\ pc = "record"
    /\ Invoke(Call("record_day", df[i].date, df[i].close_price, None, "None"),
              record_day(P, df[i].date, df[i].close_price))
    /\ IF i < Len(df)
       THEN i' = i + 1 /\ pc' = "trade"
       ELSE i' = i /\ pc' = "close"
    /\ UNCHANGED <<nops, engines, heap, strategy, starting_capital, commission_pct,
                   results_df, metrics, df, columns, arg, returned, ran>>

\* the closing sale dated at the first row
RunClosePosition_at_first_row ==
    /\ pc = "close"
    /\ IF has_position(P)
       THEN Invoke(Call("sell", df[1].date, df[1].close_price, None, "None"),
                   sell(P, df[1].date, df[1].close_price))
       ELSE UNCHANGED <<portfolio, call, calls>>
    /\ pc' = "metrics"
    /\ UNCHANGED <<nops, engines, heap, strategy, starting_capital, commission_pct,
                   results_df, metrics, df, i, columns, arg, returned, ran>>

\* run, lines 94-98: close any open position at the last row's date and price
RunClosePosition ==
    /\ pc = "close"
    /\ IF has_position(P)
       THEN Invoke(Call("sell", df[Len(df)].date, df[Len(df)].close_price, None, "None"),
                   sell(P, df[Len(df)].date, df[Len(df)].close_price))
       ELSE UNCHANGED <<portfolio, call, calls>>
    /\ pc' = "metrics"
    /\ UNCHANGED <<nops, engines, heap, strategy, starting_capital, commission_pct,
                   results_df, metrics, df, i, columns, arg, returned, ran>>

\* PerformanceMetrics.calculate_total_return; final_value is a numpy float64
calculate_total_return(equity_curve, capital) ==
    NpMul(NpDiv(NpSub(Some(equity_curve[Len(equity_curve)]), Some(capital)),
                Some(capital)),
          Some(F(100)))

\* the dict of calculate_all for a non-empty curve x[1], the capital x[2] and
\* trades x[3] whose statistics can be computed: every entry but
\* annualized_return_pct, a fractional power of the total return;
\* metrics.update(trade_stats) adds the trade statistics
MetricsRecord[x \in Seq(Int) \X Int \X Seq(TradeRecords)] ==
    [starting_capital |-> x[2],
     final_value |-> x[1][Len(x[1])],
     total_return_pct |-> calculate_total_return(x[1], x[2]),
     sharpe_ratio |-> calculate_sharpe_ratio(x[1], risk_free_rate),
     max_drawdown_pct |-> calculate_max_drawdown(x[1]),
     volatility |-> calculate_volatility(x[1]),
     num_days |-> Len(x[1])] @@ calculate_trade_statistics(x[3]).v

\* PerformanceMetrics.calculate_all
calculate_all(equity_curve, capital, trades) ==
    MetricsRecord[<<equity_curve, capital, trades>>]

\* what calculate_trade_statistics raises for the trades, "dict" if nothing
Raises[trades \in Seq(TradeRecords)] == calculate_trade_statistics(trades).kind

\* run, lines 100-118: results_df and metrics from the equity curve; pandas
\* raises ValueError for a column whose length is not the frame's, and
\* calculate_all raises IndexError for the last value of an empty curve and
\* whatever calculate_trade_statistics raises
RunMetrics ==
    /\ pc = "metrics"
    /\ IF Len(P.equity_curve) # Len(df)
       THEN /\ pc' = "ValueError"
            /\ UNCHANGED <<results_df, metrics, ran>>
       ELSE LET values == [k \in 1 .. Len(P.equity_curve) |->
                              P.equity_curve[k].portfolio_value]
                results == [k \in 1 .. Len(df) |->
                               [date |-> df[k].date,
                                close_price |-> df[k].close_price,
                                signal |-> df[k].signal,
                                portfolio_value |-> values[k]]]
            IN  IF values = <<>>
                THEN /\ results_df' = Some(results)
                     /\ pc' = "IndexError"
                     /\ UNCHANGED <<metrics, ran>>
                ELSE IF Raises[get_closed_trades(P)] # "dict"
                THEN /\ results_df' = Some(results)
                     /\ pc' = Raises[get_closed_trades(P)]
                     /\ UNCHANGED <<metrics, ran>>
                ELSE /\ results_df' = Some(results)
                     /\ metrics' = Some(calculate_all(values, starting_capital,
                                                      get_closed_trades(P)))
                     /\ pc' = "done"
                     /\ ran' = TRUE
    /\ UNCHANGED <<portfolio, call, nops, engines, heap, strategy, starting_capital,
                   commission_pct, df, i, calls, columns, arg, returned>>

EngineNext ==
    \/ RunLoad
    \/ RunGenerateSignals
    \/ RunInitPortfolio
    \/ RunTrade
    \/ RunRecordDay
    \/ RunClosePosition
    \/ RunMetrics

EngineSpec == EngineInit /\ [][EngineNext]_vars

\* run is synchronous, single-threaded code: once called it keeps going
EngineFairSpec == EngineSpec /\ WF_vars(EngineNext)

(* ------------------- an engine over several calls ---------------------- *)

\* the positions at which the engine is not inside run
Returned == {"idle", "done", "ValueError", "IndexError", "ZeroDivisionError", "TypeError"}

\* a BacktestEngine has been constructed and no method called yet
SessionInit ==
    /\ strategy \in Strategies
    /\ starting_capital \in Capitals
    /\ commission_pct \in Commissions
    /\ portfolio = None
    /\ results_df = None
    /\ metrics = None
    /\ df = <<>>
    /\ i = 0
    /\ pc = "idle"
    /\ calls = <<>>
    /\ call = NoCall
    /\ nops = 0
    /\ columns = {}
    /\ arg = None
    /\ returned = NotCalled
    /\ ran = FALSE
    /\ engines = <<>>
    /\ heap = <<>>

\* a caller invokes engine.run(ticker): its locals are fresh
CallRun ==
    /\ pc \in Returned
    /\ pc' = "ready"
    /\ df' = <<>>
    /\ i' = 0
    /\ calls' = <<>>
    /\ columns' = {}
    /\ returned' = NotCalled
    /\ UNCHANGED <<portfolio, call, nops, engines, heap, strategy, starting_capital,
                   commission_pct, results_df, metrics, arg, ran>>

\* the ValueError the getters raise
MustRunFirst == [kind |-> "ValueError", message |-> "Must run backtest first"]

\* BacktestEngine.get_results_df
get_results_df ==
    IF results_df = None THEN MustRunFirst
    ELSE [kind |-> "DataFrame", v |-> results_df[1]]

\* BacktestEngine.get_metrics
get_metrics ==
    IF metrics = None THEN MustRunFirst
    ELSE [kind |-> "dict", v |-> metrics[1]]

\* BacktestEngine.get_trades_df: one row per closed trade
get_trades_df ==
    IF portfolio = None THEN MustRunFirst
    ELSE LET trades == get_closed_trades(P)
         IN  IF \E k \in 1 .. Len(trades) :
                    return_pct(trades[k]).kind = "ZeroDivisionError"
             THEN [kind |-> "ZeroDivisionError", message |-> "float division by zero"]
             ELSE [kind |-> "DataFrame",
                   v |-> [k \in 1 .. Len(trades) |->
                            [entry_date |-> trades[k].entry_date,
                             exit_date |-> trades[k].exit_date,
                             entry_price |-> trades[k].entry_price,
                             exit_price |-> trades[k].exit_price,
                             shares |-> trades[k].shares,
                             return_pct |-> return_pct(trades[k]),
                             return_dollars |-> return_dollars(trades[k]),
                             holding_days |-> holding_days(trades[k])]]]

\* a caller invokes a getter between runs
CallGetter(op, result) ==
    /\ pc \in Returned
    /\ returned' = [op |-> op, result |-> result]
    /\ UNCHANGED <<portfolio, call, nops, engines, heap, strategy, starting_capital,
                   commission_pct, results_df, metrics, df, i, pc, calls,
                   columns, arg, ran>>

CallGetResultsDf == CallGetter("get_results_df", get_results_df)

CallGetMetrics == CallGetter("get_metrics", get_metrics)

CallGetTradesDf == CallGetter("get_trades_df", get_trades_df)

SessionNext ==
    \/ CallRun
    \/ RunLoad
    \/ RunGenerateSignals
    \/ RunInitPortfolio
    \/ RunTrade
    \/ RunRecordDay
    \/ RunClosePosition
    \/ RunMetrics
    \/ CallGetResultsDf
    \/ CallGetMetrics
    \/ CallGetTradesDf

SessionSpec == SessionInit /\ [][SessionNext]_vars

(* ---------------------- runs made side by side ------------------------- *)

\* run, lines 82-92, for one row on the Portfolio p: the signal is acted on,
\* then the day is recorded
SimulateDay(p, row) ==
    LET traded == IF row.signal = "BUY" /\ ~has_position(p)
                  THEN buy(p, row.date, row.close_price, None).p
                  ELSE IF row.signal = "SELL" /\ has_position(p)
                       THEN sell(p, row.date, row.close_price).p
                       ELSE p
    IN  record_day(traded, row.date, row.close_price).p

\* run, lines 94-98, on the Portfolio p after the last of rows
ClosePosition(p, rows) ==
    IF has_position(p)
    THEN sell(p, rows[Len(rows)].date, rows[Len(rows)].close_price).p
    ELSE p

\* BacktestEngine.__init__; data is the frame get_combined_data and the
\* strategy's generate_signals yield for the ticker the engine is run on, and
\* portfolio is a reference into heap, 0 for None
BacktestEngine(capital, commission, data) ==
    [starting_capital |-> capital, commission_pct |-> commission, data |-> data,
     portfolio |-> 0, results_df |-> None, metrics |-> None,
     df |-> <<>>, i |-> 0, pc |-> "idle"]

\* closes that fall and rise in turn, from the close first
Zigzag(first, k) == IF k % 2 = 1 THEN first ELSE F(7) - first

\* the frames of engine 1: closes that start low or high, any signals
SignalledFrames ==
    UNION {{[k \in 1 .. n |-> [date |-> TradingDay(k),
                               close_price |-> Zigzag(first, k),
                               signal |-> sig[k]]] :
               first \in Closes, sig \in [1 .. n -> Signals]} :
           n \in 0 .. MaxBars}

\* the frame of engine 2: closes that start high, bought and sold in turn
TradedFrames ==
    {[k \in 1 .. MaxBars |-> [date |-> TradingDay(k),
                              close_price |-> Zigzag(F(4), k),
                              signal |-> IF k % 2 = 1 THEN "BUY" ELSE "SELL"]]}

SideBySideInit ==
    /\ \E d1 \in SignalledFrames, d2 \in TradedFrames :
         engines = <<BacktestEngine(F(13), 0, d1),
                     BacktestEngine(F(13), Frac(1, 2), d2)>>
    /\ heap = <<>>
    /\ strategy = "AnySignals"
    /\ returned = NotCalled
    /\ arg = None
    /\ nops = 0
    /\ portfolio = None
    /\ call = NoCall
    /\ starting_capital = 0
    /\ commission_pct = 0
    /\ results_df = None
    /\ metrics = None
    /\ df = <<>>
    /\ i = 0
    /\ pc = "idle"
    /\ calls = <<>>
    /\ columns = {}
    /\ ran = FALSE

\* the rest of the state, for the steps of the engines made side by side
single_vars == <<portfolio, call, nops, strategy, starting_capital,
                 commission_pct, results_df, metrics, df, i, pc, calls, columns,
                 arg, returned, ran>>

\* a Portfolio object that exists already, handed out again
Fresh_shared(h) == IF h = <<>> THEN 1 ELSE Len(h)

\* the reference of the object a constructor call creates
Fresh(h) == Len(h) + 1

\* the heap h with the object p at the reference ref
Stored(h, ref, p) == [k \in 1 .. (IF ref > Len(h) THEN ref ELSE Len(h)) |->
                         IF k = ref THEN p ELSE h[k]]

\* engine e starts run, lines 62-72: the frame is loaded, an empty one
\* rejected, and the signals generated
EngineLoad(e) ==
    /\ engines[e].pc \in {"idle", "done", "ValueError"}
    /\ Len(heap) < MaxPortfolios
    /\ engines' = [engines EXCEPT ![e].df = engines[e].data,
                                  ![e].i = 0,
                                  ![e].pc = IF engines[e].data = <<>>
                                            THEN "ValueError" ELSE "portfolio"]
    /\ UNCHANGED heap /\ UNCHANGED single_vars

\* run, lines 74-78, on engine e
EngineInitPortfolio(e) ==
    /\ engines[e].pc = "portfolio"
    /\ heap' = Stored(heap, Fresh(heap),
                      Portfolio(engines[e].starting_capital, engines[e].commission_pct))
    /\ engines' = [engines EXCEPT ![e].portfolio = Fresh(heap),
                                  ![e].i = 1,
                                  ![e].pc = "day"]
    /\ UNCHANGED single_vars

\* run, lines 81-92, on engine e: one pass of the loop
EngineDay(e) ==
    /\ engines[e].pc = "day"
    /\ heap' = [heap EXCEPT ![engines[e].portfolio] =
                                SimulateDay(@, engines[e].df[engines[e].i])]
    /\ engines' = IF engines[e].i < Len(engines[e].df)
                  THEN [engines EXCEPT ![e].i = @ + 1]
                  ELSE [engines EXCEPT ![e].pc = "close"]
    /\ UNCHANGED single_vars

\* run, lines 94-98, on engine e
EngineClosePosition(e) ==
    /\ engines[e].pc = "close"
    /\ heap' = [heap EXCEPT ![engines[e].portfolio] = ClosePosition(@, engines[e].df)]
    /\ engines' = [engines EXCEPT ![e].pc = "metrics"]
    /\ UNCHANGED single_vars

\* the portfolio_value column of an equity curve
PortfolioValues(equity_curve) ==
    [k \in 1 .. Len(equity_curve) |-> equity_curve[k].portfolio_value]

\* results_df of run for the frame rows and the Portfolio p (lines 101-102)
ResultsOf(rows, p) ==
    [k \in 1 .. Len(rows) |->
        [date |-> rows[k].date, close_price |-> rows[k].close_price,
         signal |-> rows[k].signal,
         portfolio_value |-> PortfolioValues(p.equity_curve)[k]]]

\* run, lines 100-118, on engine e; pandas raises ValueError for a column
\* whose length is not the frame's, and calculate_all raises whatever
\* calculate_trade_statistics raises
EngineMetrics(e) ==
    /\ engines[e].pc = "metrics"
    /\ LET p == heap[engines[e].portfolio]
       IN  engines' =
             IF Len(p.equity_curve) # Len(engines[e].df)
             THEN [engines EXCEPT ![e].pc = "ValueError"]
             ELSE IF Raises[get_closed_trades(p)] # "dict"
             THEN [engines EXCEPT
                     ![e].results_df = Some(ResultsOf(engines[e].df, p)),
                     ![e].pc = Raises[get_closed_trades(p)]]
             ELSE [engines EXCEPT
                     ![e].results_df = Some(ResultsOf(engines[e].df, p)),
                     ![e].metrics = Some(calculate_all(PortfolioValues(p.equity_curve),
                                                       engines[e].starting_capital,
                                                       get_closed_trades(p))),
                     ![e].pc = "done"]
    /\ UNCHANGED heap /\ UNCHANGED single_vars

SideBySideNext ==
    \E e \in {1, 2} :
        \/ EngineLoad(e)
        \/ EngineInitPortfolio(e)
        \/ EngineDay(e)
        \/ EngineClosePosition(e)
        \/ EngineMetrics(e)

SideBySideSpec == SideBySideInit /\ [][SideBySideNext]_vars

(* ------------------ a run with one of the strategies ------------------- *)

\* the rows run iterates over (df.iterrows()) of the frame w a strategy
\* returned: the index is the date
IterRows(w) ==
    [k \in 1 .. Len(w.rows) |-> [date |-> w.index[k],
                                 close_price |-> w.rows[k]["close_price"][1],
                                 signal |-> w.rows[k]["signal"]]]

\* arg is the frame get_combined_data returns: every column the strategy
\* requires, 0 .. MaxBars rows
LoadedFrame ==
    \E n \in 0 .. MaxBars : \E rows \in [1 .. n -> RowsOf(strategy)] :
        arg = FrameOf(get_required_columns(strategy), rows)

BacktestInit ==
    /\ strategy \in StrategyClasses
    /\ LoadedFrame
    /\ engines = <<BacktestEngine(F(13), Frac(1, 2), <<>>)>>
    /\ heap = <<>>
    /\ returned = NotCalled
    /\ nops = 0
    /\ portfolio = None
    /\ call = NoCall
    /\ starting_capital = 0
    /\ commission_pct = 0
    /\ results_df = None
    /\ metrics = None
    /\ df = <<>>
    /\ i = 0
    /\ pc = "idle"
    /\ calls = <<>>
    /\ columns = {}
    /\ ran = FALSE

\* run, lines 62-72, on engine e with the frame arg loaded: an empty frame is
\* rejected, else the strategy is called and what it raises ends the run
EngineGenerateSignals(e) ==
    /\ engines[e].pc = "idle"
    /\ IF arg.rows = <<>>
       THEN /\ engines' = [engines EXCEPT ![e].pc = "ValueError"]
            /\ UNCHANGED <<arg, returned>>
       ELSE \E o \in {Strategy_generate_signals(strategy, arg)} :
              /\ arg' = o.df
              /\ returned' = [op |-> "generate_signals", ret |-> o.ret,
                              printed |-> o.printed]
              /\ engines' = IF o.ret.kind = "DataFrame"
                            THEN [engines EXCEPT ![e].df = IterRows(o.ret.df),
                                                 ![e].pc = "portfolio"]
                            ELSE [engines EXCEPT ![e].pc = o.ret.kind]
    /\ UNCHANGED <<portfolio, call, nops, heap, strategy, starting_capital,
                   commission_pct, results_df, metrics, df, i, pc, calls, columns,
                   ran>>

BacktestNext ==
    \/ EngineGenerateSignals(1)
    \/ EngineInitPortfolio(1)
    \/ EngineDay(1)
    \/ EngineClosePosition(1)
    \/ EngineMetrics(1)

BacktestSpec == BacktestInit /\ [][BacktestNext]_vars

(* ------------------- claims about a Portfolio (C1, C3-C5, C9) ---------- *)

\* a step of PortfolioSpec that made a call
Called == nops' = nops + 1

\* C1 (as claimed): in every state reachable by buy, sell and record_day calls
\* with any shares argument and any price, shares_held > 0 holds if and only if
\* an open Trade (current_trade) exists, position_entry_price is the open
\* Trade's entry_price whenever one exists, and shares_held is never negative.
C1_PositionIffOpenTrade ==
    /\ (P.shares_held > 0 <=> P.current_trade # None)
    /\ (P.current_trade # None =>
            P.position_entry_price = P.current_trade[1].entry_price)
    /\ P.shares_held >= 0

\* the share count a buy call works with: the argument, or the default sizing
EffectiveShares(p, c) ==
    IF c.shares = None THEN default_shares(p, c.price) ELSE c.shares[1]

\* C3: buy while LONG, buy whose total cost exceeds cash, and sell while FLAT
\* each return False, and a call that returns False leaves the whole Portfolio
\* (cash, shares_held, position_entry_price, open Trade, trade history, equity
\* curve) exactly as it was.
C3_RefusalMutatesNothing ==
    [][Called =>
        /\ (call'.op = "buy" /\ has_position(P) => call'.ret = "False")
        /\ (/\ call'.op = "buy"
            /\ ~has_position(P)
            /\ (call'.shares # None \/ call'.price # 0)
            /\ total_cost(P, call'.price, EffectiveShares(P, call')) > P.cash
            => call'.ret = "False")
        /\ (call'.op = "sell" /\ ~has_position(P) => call'.ret = "False")
        /\ (call'.ret = "False" => portfolio' = portfolio)]_vars

\* C3 witness: a buy was refused for lack of cash on a Portfolio that already
\* has a closed trade in its history
C3_Witness ==
    /\ call.op = "buy"
    /\ call.ret = "False"
    /\ ~has_position(P)
    /\ Len(P.trades) > 0
    /\ call.shares = Some(F(8))

\* C4 (as claimed): a buy without a shares argument on a FLAT portfolio, at a
\* price > 0, always succeeds and leaves cash >= 0.
C4_DefaultBuySucceeds ==
    [][Called /\ call'.op = "buy" /\ call'.shares = None /\ call'.price > 0
              /\ P.shares_held = 0
        => call'.ret = "True" /\ P'.cash >= 0]_vars

\* C5 (as claimed): a sell that follows a successful buy of s shares at p on d0
\* ends FLAT, credits s*q*(1-c) to cash and appends exactly one closed Trade
\* with entry (d0, p, s), exit (d1, q), return_pct (q-p)/p*100, return_dollars
\* (q-p)*s and holding_days d1-d0; the buy itself took s*p*(1+c) from cash.
\* Stated here for positive prices p and q only.
C5_BuyThenSell ==
    [][Called =>
        /\ (call'.op = "buy" /\ call'.ret = "True" =>
              P'.cash = FSub(P.cash,
                             FAdd(FMul(EffectiveShares(P, call'), call'.price),
                                  FMul(FMul(EffectiveShares(P, call'), call'.price),
                                       P.commission_pct))))
        /\ (call.op = "buy" /\ call.ret = "True" /\ call.price > 0
            /\ call'.op = "sell" /\ call'.price > 0 =>
              LET s == EffectiveShares(P, call)
                  q == call'.price
                  t == P'.trades[Len(P'.trades)]
              IN  /\ call'.ret = "True"
                  /\ P'.shares_held = 0
                  /\ P'.cash = FAdd(P.cash, FSub(FMul(P.shares_held, q),
                                                 FMul(FMul(P.shares_held, q),
                                                      P.commission_pct)))
                  /\ Len(P'.trades) = Len(P.trades) + 1
                  /\ t.entry_date = call.date
                  /\ t.entry_price = call.price
                  /\ t.shares = P.shares_held
                  /\ t.exit_date = Some(call'.date)
                  /\ t.exit_price = Some(q)
                  /\ return_pct(t) =
                        Value(FMul(FDiv(FSub(q, call.price), call.price), F(100)))
                  /\ return_dollars(t) = Value(FMul(FSub(q, call.price), t.shares))
                  /\ holding_days(t) = Value(call'.date - call.date))]_vars

\* C9: every record_day call returns normally, appends exactly one
\* EquitySnapshot with portfolio_value = cash + shares_held*price and
\* position_value = shares_held*price of the current state, keeps the earlier
\* snapshots, and changes nothing else of the Portfolio.
C9_RecordDayAppendsOnly ==
    [][Called /\ call'.op = "record_day" =>
        /\ call'.ret = "None"
        /\ P'.equity_curve =
              Append(P.equity_curve,
                     [date |-> call'.date,
                      portfolio_value |->
                          FAdd(P.cash, FMul(P.shares_held, call'.price)),
                      cash |-> P.cash,
                      position_value |-> FMul(P.shares_held, call'.price),
                      shares_held |-> P.shares_held])
        /\ P' = [P EXCEPT !.equity_curve = P'.equity_curve]]_vars

\* C9 witness: record_day was called on a LONG Portfolio that already held a
\* snapshot, at a price other than the entry price
C9_Witness ==
    /\ call.op = "record_day"
    /\ Len(P.equity_curve) = 2
    /\ has_position(P)
    /\ call.price # P.position_entry_price
    /\ P.equity_curve[2].position_value > 0


(* ------------- claims about BacktestEngine.run (C2, C6-C8, C10) -------- *)

\* the open Trades a Portfolio holds: current_trade and any in the history
OpenTradeCount(p) ==
    Cardinality({k \in 1 .. Len(p.trades) : is_open(p.trades[k])})
    + (IF p.current_trade # None /\ is_open(p.current_trade[1]) THEN 1 ELSE 0)

\* the positions of the calls of run's log that satisfy Test
CallsWhere(Test(_)) == {j \in 1 .. Len(calls) : Test(calls[j])}

\* C2: during run with positive starting capital and commission_pct in [0,1)
\* (closes are positive), when a snapshot has just been appended its
\* shares_held is > 0 if and only if the Portfolio has exactly one open Trade.
C2_SnapshotSharesIffOneOpenTrade ==
    (/\ portfolio # None
     /\ starting_capital > 0
     /\ commission_pct >= 0
     /\ commission_pct < One
     /\ call.op = "record_day")
    => LET snapshot == P.equity_curve[Len(P.equity_curve)]
       IN  /\ snapshot.shares_held > 0 <=> OpenTradeCount(P) = 1
           /\ OpenTradeCount(P) <= 1

\* C2 witness: a snapshot taken while the second position of the run is open,
\* under a commission strictly between 0 and 1
C2_Witness ==
    /\ portfolio # None
    /\ starting_capital > 0
    /\ commission_pct > 0
    /\ commission_pct < One
    /\ call.op = "record_day"
    /\ P.equity_curve[Len(P.equity_curve)].shares_held > 0
    /\ Len(P.trades) = 1
    /\ OpenTradeCount(P) = 1

\* C6 (as claimed): when run is over, every date of the series has exactly one
\* record_day call, and every buy or sell executed with that date, the forced
\* closing sell included, was made before it.
C6_RecordDayAfterEveryTrade ==
    pc = "done" =>
        \A k \in 1 .. Len(df) :
            LET recorded == CallsWhere(LAMBDA c : c.op = "record_day"
                                                  /\ c.date = df[k].date)
                traded == CallsWhere(LAMBDA c : c.op \in {"buy", "sell"}
                                                /\ c.ret = "True"
                                                /\ c.date = df[k].date)
            IN  /\ Cardinality(recorded) = 1
                /\ \A r \in recorded, t \in traded : t < r

\* C7 (as claimed): when run returns the Portfolio is FLAT with no open Trade,
\* and every position opened during the run is in the closed-trade list with
\* its exit fields set.
C7_FlatWhenRunReturns ==
    pc = "done" =>
        /\ P.shares_held = 0
        /\ P.current_trade = None
        /\ Len(get_closed_trades(P)) =
              Cardinality(CallsWhere(LAMBDA c : c.op = "buy" /\ c.ret = "True"))
        /\ \A k \in 1 .. Len(P.trades) :
              P.trades[k].exit_date # None /\ P.trades[k].exit_price # None

\* C8 (as claimed, here only for positive capital and commission_pct in [0,1)):
\* run with BuyAndHold on a non-empty series leaves exactly one closed Trade,
\* entered at the first date and close and exited at the last date and close.
C8_BuyAndHoldOneTrade ==
    (/\ pc = "done"
     /\ strategy = "BuyAndHold"
     /\ starting_capital > 0
     /\ commission_pct >= 0
     /\ commission_pct < One)
    => LET closed == get_closed_trades(P)
       IN  /\ Len(closed) = 1
           /\ closed[1].entry_date = df[1].date
           /\ closed[1].entry_price = df[1].close_price
           /\ closed[1].exit_date = Some(df[Len(df)].date)
           /\ closed[1].exit_price = Some(df[Len(df)].close_price)

\* the dates of the record_day calls of run's log, in call order
RECURSIVE RecordedDates(_)
RecordedDates(log) ==
    IF log = <<>> THEN <<>>
    ELSE IF log[1].op = "record_day"
         THEN <<log[1].date>> \o RecordedDates(Tail(log))
         ELSE RecordedDates(Tail(log))

\* C10: run on a series of n >= 1 dates terminates (with ValueError only when
\* the input or the strategy's frame is rejected, so before the simulation),
\* having processed each date exactly once in series order, and the equity
\* curve then holds exactly n snapshots whose dates are the input dates in the
\* same order.
C10_RunTerminatesWithOneSnapshotPerDate ==
    /\ (pc \in {"signals", "portfolio"}) ~> (pc \in {"done", "ValueError"})
    /\ [][pc' = "ValueError" => pc \in {"ready", "signals"}]_vars
    /\ [](pc = "done" =>
            /\ Len(df) >= 1
            /\ Len(P.equity_curve) = Len(df)
            /\ \A k \in 1 .. Len(df) : P.equity_curve[k].date = df[k].date
            /\ RecordedDates(calls) = [k \in 1 .. Len(df) |-> df[k].date])

\* C10 witness: a run over a series of several dates has returned
C10_Witness ==
    /\ pc = "done"
    /\ Len(df) >= 3
    /\ Len(P.equity_curve) = Len(df)
    /\ Len(P.trades) >= 1


(* ------------- claims about run's failures and the getters (C11) ------- *)

\* the positions of run after the data has been accepted
Accepted == {"signals", "portfolio", "trade", "record", "close", "metrics"}

\* C11: run rejects an empty input series with an error before the strategy
\* is asked for signals and before any Portfolio is created or any metric is
\* computed: loading an empty frame ends the run with ValueError at once, with
\* the stored portfolio, results and metrics untouched and no Portfolio call
\* made, no later position of run ever sees an empty frame, and a run that
\* has failed does nothing more.
C11_EmptyInputRejectedFirst ==
    /\ [][pc = "ready" /\ df' = <<>> =>
            /\ pc' = "ValueError"
            /\ UNCHANGED <<portfolio, results_df, metrics, calls>>]_vars
    /\ [](pc \in Accepted => df # <<>>)
    /\ [][pc = "ValueError" => pc' \in {"ValueError", "ready"}]_vars

\* C11 witness: an engine that holds the results of a successful run has just
\* rejected an empty series
C11_Witness ==
    /\ pc = "ValueError"
    /\ df = <<>>
    /\ ran
    /\ metrics # None
    /\ portfolio # None

(* ---------------- claims about the strategies (C12-C15) ---------------- *)

\* generate_signals has been called on arg
Generated == returned # NotCalled /\ returned.op = "generate_signals"

\* the required columns arg lacks
Missing == get_required_columns(strategy) \ arg.columns

\* the signal column of the frame generate_signals returned
SignalColumn == Column(returned.ret.df, "signal")

\* C12 (as claimed): for each of the six strategies, generate_signals on an
\* input that lacks a required field fails with an error that names the
\* missing fields, before any signal is computed or returned.
C12_MissingFieldsNamed ==
    (Generated /\ Missing # {}) =>
        /\ returned.ret.kind = "ValueError"
        /\ Missing \subseteq returned.ret.message.names

\* C13: for each of the six strategies and every input of at least one row
\* that carries the required columns, generate_signals returns a frame with
\* the input's dates in the input's order and a signal column that holds
\* BUY, SELL or HOLD on every row.
C13_OneSignalPerDate ==
    (Generated /\ Missing = {} /\ arg.rows # <<>>) =>
        /\ returned.ret.kind = "DataFrame"
        /\ returned.ret.df.index = arg.index
        /\ "signal" \in returned.ret.df.columns
        /\ Len(SignalColumn) = Len(arg.index)
        /\ \A k \in 1 .. Len(arg.index) : SignalColumn[k] \in Signals

\* C13 witness: BollingerMeanReversion has returned all three signals for a
\* frame of three dates, one of them with an undefined band
C13_Witness ==
    /\ Generated
    /\ strategy = "BollingerMeanReversion"
    /\ returned.ret.kind = "DataFrame"
    /\ Len(arg.rows) = 3
    /\ \E k \in 1 .. 3 : arg.rows[k]["bollinger_upper"] = NaN
    /\ {SignalColumn[k] : k \in 1 .. 3} = Signals

\* C14 (as claimed): for every strategy and every input, the first signal
\* other than HOLD that generate_signals emits is BUY: a SELL never comes
\* before the first BUY.
C14_FirstSignalIsBuy ==
    (Generated /\ returned.ret.kind = "DataFrame") =>
        \A k \in 1 .. Len(SignalColumn) :
            SignalColumn[k] = "SELL" => \E j \in 1 .. k - 1 : SignalColumn[j] = "BUY"

\* C15: generate_signals of every strategy leaves the caller's frame as it
\* was (no column added, no cell altered), whether it returns or raises; the
\* frame it returns is another object; and calling it again on that frame
\* returns what the first call returned.
C15_GenerateSignalsIsPure ==
    [][returned = NotCalled /\ returned' # NotCalled =>
        /\ arg' = arg
        /\ (returned'.ret.kind = "DataFrame" => returned'.ret.df.obj # arg.obj)
        /\ Strategy_generate_signals(strategy, arg').ret = returned'.ret]_vars

\* C15 witness: VolatilityBreakout has returned a frame of three rows with
\* its threshold and signal columns, and the caller's frame has none of them
C15_Witness ==
    /\ Generated
    /\ strategy = "VolatilityBreakout"
    /\ returned.ret.kind = "DataFrame"
    /\ Len(arg.rows) = 3
    /\ {"signal", "upper_threshold", "lower_threshold"} \subseteq returned.ret.df.columns
    /\ arg.columns = get_required_columns(strategy)
    /\ \E k \in 1 .. 3 : SignalColumn[k] = "SELL"


(* --------------------- claims on PerformanceMetrics -------------------- *)

\* the daily-return observations of the curve handed over
Observations == dropna(pct_change(Series(arg.equity_curve)))

\* the curve handed over holds one value throughout
ConstantCurve ==
    \A j, k \in 1 .. Len(arg.equity_curve) : arg.equity_curve[j] = arg.equity_curve[k]

\* C16: calculate_sharpe_ratio returns exactly 0, and not NaN, whenever the
\* curve yields fewer than two daily-return observations or the observations
\* have a standard deviation of 0, so for every constant curve of one value
\* or more.
C16_SharpeZeroWhenDegenerate ==
    (returned # NotCalled /\ returned.op = "calculate_sharpe_ratio") =>
        /\ returned.ret # NaN
        /\ (Len(Observations) < 2 \/ std[Observations] = Some(0)) =>
               returned.ret = Some(0)
        /\ (Len(arg.equity_curve) >= 1 /\ ConstantCurve) => returned.ret = Some(0)

\* the highest value of the curve handed over up to position t
RunningMaximum(t) ==
    CHOOSE x \in {arg.equity_curve[j] : j \in 1 .. t} :
        \A j \in 1 .. t : x >= arg.equity_curve[j]

\* the decline at position t from the highest value up to t, in percent
Decline(t) ==
    FMul(FDiv(FSub(arg.equity_curve[t], RunningMaximum(t)), RunningMaximum(t)),
         F(100))

\* the curve handed over never falls from one value to the next
NonDecreasing ==
    \A k \in 2 .. Len(arg.equity_curve) :
        arg.equity_curve[k - 1] <= arg.equity_curve[k]

\* C17: for a non-empty curve of positive values calculate_max_drawdown
\* returns the least, over the positions t, of the decline of equity[t] from
\* the running maximum up to t in percent; the result is never above 0, and
\* it is 0 when the curve is non-decreasing.
C17_MaxDrawdownFromRunningPeak ==
    (/\ returned # NotCalled
     /\ returned.op = "calculate_max_drawdown"
     /\ arg.equity_curve # <<>>
     /\ \A k \in 1 .. Len(arg.equity_curve) : arg.equity_curve[k] > 0) =>
        /\ returned.ret # NaN
        /\ \E t \in 1 .. Len(arg.equity_curve) : returned.ret[1] = Decline(t)
        /\ \A t \in 1 .. Len(arg.equity_curve) : returned.ret[1] <= Decline(t)
        /\ returned.ret[1] <= 0
        /\ NonDecreasing => returned.ret[1] = 0

\* a curve that falls from its first peak and then climbs above it, and the
\* drawdown found for it
C17_Witness ==
    /\ returned # NotCalled
    /\ returned.op = "calculate_max_drawdown"
    /\ Len(arg.equity_curve) = 3
    /\ arg.equity_curve[2] < arg.equity_curve[1]
    /\ arg.equity_curve[3] > arg.equity_curve[1]
    /\ returned.ret # NaN
    /\ returned.ret[1] < 0

\* the statistics calculate_trade_statistics returned for the list handed over
Reported == returned.ret.v

\* the trades handed over with a return_pct of 0 or less
Losers ==
    SelectSeq(arg.trades, LAMBDA t : return_pct(t).kind = "value" /\ return_pct(t).v <= 0)

\* the trades handed over with a return_pct above 0
Winners ==
    SelectSeq(arg.trades, LAMBDA t : return_pct(t).kind = "value" /\ return_pct(t).v > 0)

\* C18: calculate_trade_statistics counts every closed trade either as
\* winning (return_pct > 0) or as losing (return_pct <= 0): winning_trades +
\* losing_trades = total_trades, losing_trades is the number of trades with
\* return_pct <= 0, and avg_loss_pct is the mean return_pct of those trades.
C18_EveryTradeWinsOrLoses ==
    (returned # NotCalled /\ returned.op = "calculate_trade_statistics") =>
        /\ returned.ret.kind = "dict"
        /\ Reported.winning_trades + Reported.losing_trades
               = Reported.total_trades
        /\ Reported.winning_trades = Len(Winners)
        /\ Reported.losing_trades = Len(Losers)
        /\ Losers # <<>> =>
               Reported.avg_loss_pct
                   = FDiv(Sum[[k \in 1 .. Len(Losers) |-> return_pct(Losers[k]).v]],
                          F(Len(Losers)))

\* C19: calculate_trade_statistics returns its statistics, none of them
\* infinite or NaN, for every list of closed trades: profit_factor is 0 when
\* there are winning trades and no losing trade, every statistic is 0 for
\* the empty list, and avg_win_pct / avg_loss_pct are 0 when there is no
\* winning / no losing trade.
C19_DegenerateTradeListsGiveZero ==
    (returned # NotCalled /\ returned.op = "calculate_trade_statistics") =>
        /\ returned.ret.kind = "dict"
        /\ Reported.profit_factor # NaN
        /\ ~IsInf(Reported.profit_factor)
        /\ (Winners # <<>> /\ Losers = <<>>) => Reported.profit_factor = Some(0)
        /\ arg.trades = <<>> =>
               /\ Reported.total_trades = 0
               /\ Reported.winning_trades = 0
               /\ Reported.losing_trades = 0
               /\ Reported.win_rate_pct = 0
               /\ Reported.avg_win_pct = 0
               /\ Reported.avg_loss_pct = 0
               /\ Reported.profit_factor = Some(0)
               /\ Reported.avg_holding_days = 0
        /\ Winners = <<>> => Reported.avg_win_pct = 0
        /\ Losers = <<>> => Reported.avg_loss_pct = 0

\* the statistics of a list with winning trades and no losing one
C19_Witness ==
    /\ returned # NotCalled
    /\ returned.op = "calculate_trade_statistics"
    /\ Len(Winners) = Len(arg.trades)
    /\ Len(arg.trades) >= 1
    /\ returned.ret.kind = "dict"
    /\ Reported.winning_trades >= 1
    /\ Reported.avg_win_pct > 0
    /\ Reported.profit_factor = Some(0)

(* ------------------ claims about failed runs (C20) --------------------- *)

\* the ways run ends other than by returning
Failed == Returned \ {"idle", "done"}

\* a getter has been called since the last call of run
GetterCalled ==
    /\ returned # NotCalled
    /\ returned.op \in {"get_metrics", "get_results_df", "get_trades_df"}

\* C20: a run that fails does so by rejecting its input, at the empty-frame
\* check or in the strategy, and from the call of run up to there the
\* engine's stored portfolio, results and metrics stay what they were, so no
\* metrics of the failed run are stored; on an engine without a successful
\* run get_metrics, get_results_df and get_trades_df each fail with 'Must run
\* backtest first'.
C20_FailedRunStoresNothing ==
    /\ [][pc' \in Failed /\ pc' # pc => pc \in {"ready", "signals"}]_vars
    /\ [][pc' = "ready" \/ pc \in {"ready", "signals"} =>
            UNCHANGED <<portfolio, results_df, metrics>>]_vars
    /\ []((~ran /\ GetterCalled) => returned.result = MustRunFirst)

\* C20 witness: on an engine without a successful run the strategy has
\* rejected a non-empty frame, and get_trades_df has failed since
C20_Witness ==
    /\ pc = "ValueError"
    /\ df # <<>>
    /\ ~ran
    /\ GetterCalled
    /\ returned.op = "get_trades_df"
    /\ returned.result = MustRunFirst

(* ------------------ claims about independent runs (C21) ---------------- *)

RECURSIVE AfterDays(_, _, _, _)
\* the Portfolio of a run made alone with the capital and commission on
\* rows, after the first k rows
AfterDays(capital, commission, rows, k) ==
    IF k = 0 THEN Portfolio(capital, commission)
    ELSE SimulateDay(AfterDays(capital, commission, rows, k - 1), rows[k])

\* the Portfolio a run made alone leaves behind
RunAlone(capital, commission, rows) ==
    ClosePosition(AfterDays(capital, commission, rows, Len(rows)), rows)

\* the Portfolio a run of engine e made alone leaves behind
Alone(e) ==
    RunAlone(engines[e].starting_capital, engines[e].commission_pct, engines[e].df)

\* C21: runs share no mutable state.  However the steps of the runs of two
\* engines interleave, and whether a run is the first of its engine or a
\* re-run, a run that has returned has the equity curve, the trades, the
\* results and the metrics of the same run made alone on its input, and a run
\* under way has the Portfolio of the run made alone up to its row.
C21_RunsAreIndependent ==
    \A e \in {1, 2} :
        /\ engines[e].pc = "done" =>
              /\ heap[engines[e].portfolio].equity_curve = Alone(e).equity_curve
              /\ heap[engines[e].portfolio].trades = Alone(e).trades
              /\ heap[engines[e].portfolio] = Alone(e)
              /\ engines[e].results_df = Some(ResultsOf(engines[e].df, Alone(e)))
              /\ engines[e].metrics =
                     Some(calculate_all(PortfolioValues(Alone(e).equity_curve),
                                        engines[e].starting_capital,
                                        get_closed_trades(Alone(e))))
        /\ engines[e].pc = "day" =>
              heap[engines[e].portfolio] =
                  AfterDays(engines[e].starting_capital, engines[e].commission_pct,
                            engines[e].df, engines[e].i - 1)

\* C21 witness: engine 1 has been run twice and engine 2 once, the last two
\* runs side by side, every run has traded and all have returned
C21_Witness ==
    /\ Len(heap) = 3
    /\ engines[1].pc = "done"
    /\ engines[2].pc = "done"
    /\ engines[1].portfolio = 3
    /\ engines[2].portfolio = 2
    /\ \A k \in 1 .. 3 : Len(heap[k].trades) >= 1 /\ Len(heap[k].equity_curve) = 2
    /\ heap[1] = heap[3]

(* --------------------- claims about lookahead (C22) -------------------- *)

\* the capital and the commission of the engine of a run
Capital == engines[1].starting_capital
Commission == engines[1].commission_pct

\* the Portfolio of the run
Mine == heap[engines[1].portfolio]

\* the series that agrees with the loaded one on the rows up to the T-th
\* date and ends there
Upto(T) == [arg EXCEPT !.index = SubSeq(arg.index, 1, T),
                       !.rows = SubSeq(arg.rows, 1, T)]

\* the rows the run on that series iterates over
PrefixRows(T) == IterRows(Strategy_generate_signals(strategy, Upto(T)).ret.df)

\* the signals of the first T of rows
SignalsUpto(rows, T) == [k \in 1 .. T |-> rows[k].signal]

\* the purchases and sales the Portfolio p has executed on the dates up to
\* the T-th
Executed(p, T) ==
    LET all == {p.trades[k] : k \in 1 .. Len(p.trades)} \cup
               {p.current_trade[k] : k \in 1 .. Len(p.current_trade)}
    IN  {<<"buy", t.entry_date, t.entry_price, t.shares>> :
            t \in {u \in all : u.entry_date <= TradingDay(T)}} \cup
        {<<"sell", t.exit_date[1], t.exit_price[1], t.shares>> :
            t \in {u \in all : ~is_open(u) /\ u.exit_date[1] <= TradingDay(T)}}

\* the snapshots of the Portfolio p for the dates up to the T-th
SnapshotsUpto(p, T) ==
    SelectSeq(p.equity_curve, LAMBDA snap : snap.date <= TradingDay(T))

\* C22 (as claimed): no lookahead.  For each of the six strategies and the
\* engine, a run on a series and a run on any series that agrees with it up
\* to a date T (here the one that ends at T) have the same signals for the
\* dates up to T, the same purchases and sales executed on the dates up to T
\* and the same equity snapshots for the dates up to T.
C22_NoLookahead ==
    engines[1].pc = "done" =>
        \A T \in 1 .. Len(engines[1].df) :
            \A alone \in {RunAlone(Capital, Commission, PrefixRows(T))} :
                /\ SignalsUpto(engines[1].df, T) = SignalsUpto(PrefixRows(T), T)
                /\ Executed(Mine, T) = Executed(alone, T)
                /\ SnapshotsUpto(Mine, T) = alone.equity_curve

\* C22 (amended): the signals for the dates up to T, the purchases and sales
\* the loop of run executes on the dates up to T and the equity snapshots for
\* the dates up to T are those of the series that ends at T: after the step
\* of date T the Portfolio is the one the loop leaves on that series.  The
\* sale that closes an open position after the loop, on the last date of a
\* series, is not among them: it depends on where the series ends.
C22_NoLookaheadInTheLoop ==
    \A T \in 1 .. Len(engines[1].df) :
        \A rows \in {PrefixRows(T)} :
            /\ SignalsUpto(engines[1].df, T) = SignalsUpto(rows, T)
            /\ engines[1].pc \in {"day", "close", "metrics", "done"} =>
                 \A alone \in {AfterDays(Capital, Commission, rows, T)} :
                    /\ (\/ engines[1].pc = "day" /\ engines[1].i = T + 1
                        \/ engines[1].pc = "close" /\ T = Len(engines[1].df)) =>
                           Mine = alone
                    /\ engines[1].pc \in {"metrics", "done"} =>
                           /\ SnapshotsUpto(Mine, T) = alone.equity_curve
                           /\ T < Len(engines[1].df) =>
                                  Executed(Mine, T) = Executed(alone, T)

\* C22 witness: a run with SMACrossover has returned; it bought on the first
\* date and held the position to the second, where the run on the series
\* that ends at the first date would have sold
C22_Witness ==
    /\ engines[1].pc = "done"
    /\ strategy = "SMACrossover"
    /\ Len(engines[1].df) = 2
    /\ Len(Mine.trades) = 1
    /\ Mine.trades[1].entry_date = TradingDay(1)
    /\ Mine.trades[1].exit_date = Some(TradingDay(2))

(* -------------- claims about the strategies' rules (C25-C28) ----------- *)

\* the indicator columns of the frame f are undefined in their warm-up only:
\* a column that has a value on a date has one on every later date
WarmUpOnly(f) ==
    \A c \in f.columns : \A j, k \in 1 .. Len(f.rows) :
        (j < k /\ f.rows[j][c] # NaN) => f.rows[k][c] # NaN

\* on row k of the frame f the columns a and b are defined
Defined(f, k, a, b) ==
    k \in 1 .. Len(f.rows) /\ f.rows[k][a] # NaN /\ f.rows[k][b] # NaN

\* on row k of the frame f both are defined and a is above b
Above(f, k, a, b) == Defined(f, k, a, b) /\ f.rows[k][a][1] > f.rows[k][b][1]

\* on row k of the frame f both are defined and a is not above b
NotAbove(f, k, a, b) == Defined(f, k, a, b) /\ f.rows[k][a][1] <= f.rows[k][b][1]

\* C25: on a series whose averages are undefined in the warm-up only,
\* SMACrossover emits BUY on a date exactly when sma_s > sma_l on that date
\* and either sma_s <= sma_l on the previous date or the date is the first on
\* which both averages are defined; SELL exactly when sma_s > sma_l on the
\* previous date and sma_s is no longer above sma_l on that date
\* (sma_s <= sma_l); HOLD on every other date.
C25_SMACrossoverRule ==
    (/\ Generated
     /\ strategy = "SMACrossover"
     /\ returned.ret.kind = "DataFrame"
     /\ WarmUpOnly(arg))
    => \A k \in 1 .. Len(arg.rows) :
          LET first == \A j \in 1 .. k - 1 : ~Defined(arg, j, "sma_5", "sma_20")
              golden == /\ Above(arg, k, "sma_5", "sma_20")
                        /\ (NotAbove(arg, k - 1, "sma_5", "sma_20") \/ first)
              death == /\ Above(arg, k - 1, "sma_5", "sma_20")
                       /\ NotAbove(arg, k, "sma_5", "sma_20")
          IN  SignalColumn[k] = IF golden THEN "BUY"
                                ELSE IF death THEN "SELL" ELSE "HOLD"

\* C25 witness: SMACrossover has returned HOLD for a warm-up date, BUY for
\* the first date with both averages and SELL for the date where the short
\* average came down to the long one
C25_Witness ==
    /\ Generated
    /\ strategy = "SMACrossover"
    /\ returned.ret.kind = "DataFrame"
    /\ WarmUpOnly(arg)
    /\ Len(arg.rows) = 3
    /\ arg.rows[1]["sma_20"] = NaN
    /\ arg.rows[3]["sma_5"] = arg.rows[3]["sma_20"]
    /\ SignalColumn = <<"HOLD", "BUY", "SELL">>

\* C26 (as claimed): BollingerMeanReversion emits HOLD on every date where
\* bollinger_upper equals bollinger_lower (flat bands), whatever the close on
\* that date and on the previous one.
C26_FlatBandsHold ==
    (/\ Generated
     /\ strategy = "BollingerMeanReversion"
     /\ returned.ret.kind = "DataFrame")
    => \A k \in 1 .. Len(arg.rows) :
          (/\ arg.rows[k]["bollinger_upper"] # NaN
           /\ arg.rows[k]["bollinger_upper"] = arg.rows[k]["bollinger_lower"])
          => SignalColumn[k] = "HOLD"

RuleFields(strat) ==
    CASE strat = "BuyAndHold" -> {}
      [] strat = "SMACrossover" -> {"sma_5", "sma_20"}
      [] strat = "BreakoutStrategy" -> {"sma_60"}
      [] strat = "VolatilityBreakout" -> {"sma_20", "atr_14"}
      [] strat = "BollingerMeanReversion" -> {"bollinger_upper", "bollinger_lower"}
      [] strat = "VolumeMomentum" -> {"volume_ratio"}

\* C28 (as claimed): for every strategy other than BuyAndHold, on a series
\* whose indicators are undefined in the warm-up only, a date on which an
\* indicator the rule reads is undefined, be it one of two, gets the signal
\* HOLD, never BUY or SELL.
C28_UndefinedIndicatorHolds ==
    (/\ Generated
     /\ strategy # "BuyAndHold"
     /\ returned.ret.kind = "DataFrame"
     /\ WarmUpOnly(arg))
    => \A k \in 1 .. Len(arg.rows) :
          (\E c \in RuleFields(strategy) : arg.rows[k][c] = NaN)
          => SignalColumn[k] = "HOLD"

(* ---------------- claims about the trade history (C24) ---------------- *)

\* the Trade t has both exit fields
Exited(t) == t.exit_date # None /\ t.exit_price # None

\* C24: the history of closed trades is append-only and its Trades are
\* immutable.  No call of buy, sell or record_day changes, removes or moves a
\* Trade of the history; only a sell adds one, the Trade that was open, at
\* the end, with its entry as it was and its exit set by that sell; the
\* Trades of the history have their exit fields and the open Trade has none,
\* so exit fields are set once.
C24_ClosedTradesAppendOnly ==
    [][/\ Len(portfolio'[1].trades) >= Len(P.trades)
       /\ SubSeq(portfolio'[1].trades, 1, Len(P.trades)) = P.trades
       /\ Len(portfolio'[1].trades) <= Len(P.trades) + 1
       /\ Len(portfolio'[1].trades) = Len(P.trades) + 1 =>
            /\ call'.op = "sell"
            /\ P.current_trade # None
            /\ portfolio'[1].trades[Len(P.trades) + 1] =
                   [P.current_trade[1] EXCEPT !.exit_date = Some(call'.date),
                                              !.exit_price = Some(call'.price)]
       /\ \A k \in 1 .. Len(portfolio'[1].trades) : Exited(portfolio'[1].trades[k])
       /\ portfolio'[1].current_trade # None =>
            /\ portfolio'[1].current_trade[1].exit_date = None
            /\ portfolio'[1].current_trade[1].exit_price = None]_vars

\* C24 witness: a position was bought and sold, and a buy made after that has
\* opened the next Trade
C24_Witness ==
    /\ nops = 3
    /\ Len(P.trades) = 1
    /\ Exited(P.trades[1])
    /\ call.op = "buy"
    /\ call.ret = "True"
    /\ P.current_trade # None

(* ------------- claims about the engine's loop (C23, C29, C30) ---------- *)

\* the Portfolio q is the Portfolio p with one snapshot more
SnapshotAppended(p, q) ==
    /\ Len(q.equity_curve) = Len(p.equity_curve) + 1
    /\ [q EXCEPT !.equity_curve = p.equity_curve] = p

\* C23 (as claimed): in the loop of run the engine calls buy only when the
\* Portfolio is FLAT and sell only when it is LONG, at most one of the two
\* for a date, and every such call returns True; a BUY signal while LONG, a
\* SELL signal while FLAT and a HOLD signal leave the Portfolio as it was but
\* for the snapshot appended for the date.
C23_EngineTradesOnlyWhenItCan ==
    [][/\ pc = "trade" =>
            /\ Len(calls') <= Len(calls) + 1
            /\ Len(calls') = Len(calls) + 1 =>
                 /\ call'.op \in {"buy", "sell"}
                 /\ call'.op = "buy" => df[i].signal = "BUY" /\ ~has_position(P)
                 /\ call'.op = "sell" => df[i].signal = "SELL" /\ has_position(P)
                 /\ call'.ret = "True"
            /\ (\/ df[i].signal = "BUY" /\ has_position(P)
                \/ df[i].signal = "SELL" /\ ~has_position(P)
                \/ df[i].signal = "HOLD") => portfolio' = portfolio
       /\ pc = "record" => SnapshotAppended(P, portfolio'[1])]_vars

\* the last of the first t rows of the frame whose signal is not HOLD, 0 if
\* there is none
LastSignal(rows, t) ==
    LET given == {k \in 1 .. t : rows[k].signal # "HOLD"}
    IN  IF given = {} THEN 0 ELSE CHOOSE k \in given : \A j \in given : j <= k

\* C29 (as claimed): during run with positive starting capital and
\* commission_pct in [0,1) (closes are positive), after the step of date t the
\* Portfolio is LONG if and only if the most recent signal other than HOLD at
\* or before t is BUY; it is FLAT if that signal is SELL or there has been
\* none.
C29_PositionFollowsLastSignal ==
    (/\ portfolio # None
     /\ starting_capital > 0
     /\ commission_pct >= 0
     /\ commission_pct < One
     /\ pc \in {"trade", "close"}
     /\ P.equity_curve # <<>>)
    => LET t == Len(P.equity_curve)
       IN  has_position(P) <=>
               (LastSignal(df, t) # 0 /\ df[LastSignal(df, t)].signal = "BUY")

\* the rows of the frame with the date d
RowsDated(d) == {k \in 1 .. Len(df) : df[k].date = d}

\* C30: when run has returned, the closed trades are in chronological order
\* and do not overlap: each has entry_date <= exit_date, each exit_date is
\* strictly earlier than the next trade's entry_date, each entry_date is a
\* date whose signal was BUY, and each exit_date is a date whose signal was
\* SELL or the last date of the series.
C30_TradesInOrder ==
    pc = "done" =>
        LET closed == get_closed_trades(P)
        IN  \A k \in 1 .. Len(closed) :
               /\ closed[k].entry_date <= closed[k].exit_date[1]
               /\ k < Len(closed) =>
                      closed[k].exit_date[1] < closed[k + 1].entry_date
               /\ \E j \in RowsDated(closed[k].entry_date) : df[j].signal = "BUY"
               /\ \E j \in RowsDated(closed[k].exit_date[1]) :
                      df[j].signal = "SELL" \/ j = Len(df)

\* C30 witness: a run has returned with two closed trades, the first sold on
\* a SELL signal and the second bought on the last date and closed there
C30_Witness ==
    /\ pc = "done"
    /\ Len(get_closed_trades(P)) = 2
    /\ df[2].signal = "SELL"
    /\ P.trades[1].exit_date = Some(df[2].date)
    /\ P.trades[2].entry_date = df[Len(df)].date
    /\ P.trades[2].exit_date = Some(df[Len(df)].date)

=============================================================================
